---- MODULE Spec2Model ----
(***************************************************************************)
(* A model of the RT-11 file system core of rt11fs: the directory engine   *)
(* (fslib/Directory.cpp), the directory cursor (src/DirPtr.cpp), the move  *)
(* log (fslib/DirChangeTracker.cpp) and the open file table                *)
(* (fslib/OpenFileTable.cpp).                                              *)
(*                                                                         *)
(* The directory is one block holding TotalSegments segments; a segment is *)
(* a header (next_segment, first data sector) and maxEntriesPerSegment     *)
(* fixed-size slots.  A slot holds a status, a name and a length; slots    *)
(* after the end-of-segment marker keep whatever was last written there.   *)
(* The build modelled keeps assert() enabled: a failed assertion ends the  *)
(* process, which the model records in d.fault and after which no          *)
(* operation runs.  The same holds when a cursor leaves the slots of its   *)
(* segment ("oob") and when a loop of the code cannot end ("hang").        *)
(***************************************************************************)
EXTENDS Integers, Sequences, FiniteSets, TLC

\* ------------------------------------------------------------------------
\* Bounds of the model (image parameters and input ranges)
\* ------------------------------------------------------------------------
ExtraBytes == 238
TotalSegments == 2
DataSectors == 2
BigDataSectors == 3
CacheSectors == 3
MaxCount == 2
MaxBlocks == 2
MaxValue == 1
MaxByte == 1
NumNames == 2
MaxSize == 2
MaxSlots == 2
MaxRef == 2
MaxStr == 4
MaxTx == 3
MaxMoves == 3
MaxImageSegments == 3
MaxImageSectors == 14

\* ------------------------------------------------------------------------
\* Program constants
\* ------------------------------------------------------------------------
SECTOR_SIZE == 512
SECTORS_PER_SEGMENT == 2
FIRST_SEGMENT_SECTOR == 6
FIRST_ENTRY_OFFSET == 10
ENTRY_LENGTH == 14
WORD == 65536

entrySize == ENTRY_LENGTH + ExtraBytes

maxEntriesPerSegment == (SECTOR_SIZE * SECTORS_PER_SEGMENT - FIRST_ENTRY_OFFSET) \div entrySize

FirstDataSector == FIRST_SEGMENT_SECTOR + TotalSegments * SECTORS_PER_SEGMENT

Names == 1..NumNames

\* The bytes a caller writes.
Bytes == 1..MaxByte

Segs == 1..TotalSegments

\* ------------------------------------------------------------------------
\* Directory entries and cursors
\* ------------------------------------------------------------------------
Ent(st, name, len) == [st |-> st, name |-> name, len |-> len]

ZeroEnt == Ent("NONE", 0, 0)

EosEnt == Ent("EOS", 0, 0)

\* A DirPtr: segment (-1 before start, 0 after end), the segment whose
\* header segbase addresses, the index and the cached data sector.
Ptr(segment, base, index, datasec) ==
  [segment |-> segment, base |-> base, index |-> index, datasec |-> datasec]

beforeStart(p) == p.segment = -1

afterEnd(p) == p.segment = 0

\* A cursor whose index lies outside the slots of its segment.
Wild(p) == p.index >= maxEntriesPerSegment

Slot(d, p) == IF Wild(p) THEN ZeroEnt ELSE d.segs[p.base].ent[p.index + 1]

hasStatus(d, p, st) == Slot(d, p).st = st

startScan(d) == Ptr(-1, 1, 0, d.segs[1].first)

setSegment(p, seg) == [p EXCEPT !.segment = seg, !.base = seg]

incIndex(p) == [p EXCEPT !.index = @ + 1]

increment(d, p) ==
  IF afterEnd(p) THEN p
  ELSE IF beforeStart(p) THEN Ptr(1, 1, 0, d.segs[1].first)
  ELSE IF Slot(d, p).st # "EOS"
    THEN [p EXCEPT !.datasec = @ + Slot(d, p).len, !.index = @ + 1]
  ELSE IF d.segs[p.base].next = 0 THEN [p EXCEPT !.segment = 0]
  ELSE Ptr(d.segs[p.base].next, d.segs[p.base].next, 0,
           d.segs[d.segs[p.base].next].first)

next(d, p) == increment(d, p)

prev(d, p) == increment(d, p)

\* Writes through a cursor: Block::setWord and setByte mark the block
\* dirty.  A 16-bit word keeps its width.
setEnt(d, p, e) ==
  [d EXCEPT !.segs[p.base].ent[p.index + 1] = e, !.dirty = TRUE]

setLen(d, p, len) ==
  [d EXCEPT !.segs[p.base].ent[p.index + 1].len = len % WORD, !.dirty = TRUE]

setStatus(d, p, st) ==
  [d EXCEPT !.segs[p.base].ent[p.index + 1].st = st, !.dirty = TRUE]

setName(d, p, name) ==
  [d EXCEPT !.segs[p.base].ent[p.index + 1].name = name, !.dirty = TRUE]

Fault(d, f) == [d EXCEPT !.fault = f]

Ok(d) == d.fault = "none"

ENOENT == 2
EINVAL == 22
ENOSPC == 28
EIO == 5

Res(d, err, p) == [d |-> d, err |-> err, p |-> p]

MinOf(S) == CHOOSE x \in S : \A y \in S : x <= y

Least(a, b) == IF a < b THEN a ELSE b

\* A local of the code: the value v under the name the body G gives it.
Bind(v, G(_)) == G(v)

\* ------------------------------------------------------------------------
\* DirChangeTracker: d.tx is the transaction counter, d.mv the move list
\* ------------------------------------------------------------------------
NewTracker(d) == [d EXCEPT !.tx = -1, !.mv = <<>>]

beginTransaction(d) == [d EXCEPT !.tx = @ + 1]

\* (variant) only tentative files are logged
moveDirEntry_OnlyTentative(d, src, dst) ==
  IF Slot(d, src).st # "TENT" THEN d
  ELSE [d EXCEPT !.mv = Append(@,
          [os |-> src.segment, oi |-> src.index, tx |-> d.tx,
           ns |-> dst.segment, ni |-> dst.index])]

\* (variant) every move of a file is a record of its own
moveDirEntry_NoChain(d, src, dst) ==
  IF Slot(d, src).st \notin {"TENT", "PERM"} THEN d
  ELSE [d EXCEPT !.mv = Append(@,
          [os |-> src.segment, oi |-> src.index, tx |-> d.tx,
           ns |-> dst.segment, ni |-> dst.index])]

moveDirEntry(d, src, dst) ==
  IF Slot(d, src).st \notin {"TENT", "PERM"} THEN d
  ELSE LET hits == {i \in 1..Len(d.mv) :
                      /\ d.mv[i].ns = src.segment
                      /\ d.mv[i].ni = src.index
                      /\ d.mv[i].tx # d.tx}
       IN IF hits # {}
            THEN [d EXCEPT !.mv[MinOf(hits)] =
                    [@ EXCEPT !.tx = d.tx, !.ns = dst.segment, !.ni = dst.index]]
            ELSE [d EXCEPT !.mv = Append(@,
                    [os |-> src.segment, oi |-> src.index, tx |-> d.tx,
                     ns |-> dst.segment, ni |-> dst.index])]

endTransaction(d) ==
  [d EXCEPT !.mv = SelectSeq(@, LAMBDA e : ~(e.os = e.ns /\ e.oi = e.ni))]

getMoves(d) == d.mv

\* ------------------------------------------------------------------------
\* Directory: scans
\* ------------------------------------------------------------------------
\* A cursor past the end does not move: the loop over it cannot end and the
\* result is a cursor outside the segment.
RECURSIVE advanceToEndOfSegment(_, _)
advanceToEndOfSegment(d, p) ==
  IF Wild(p) \/ hasStatus(d, p, "EOS") THEN p
  ELSE IF afterEnd(p) THEN [p EXCEPT !.index = maxEntriesPerSegment]
  ELSE advanceToEndOfSegment(d, increment(d, p))

\* while (++dirp): the first entry after p, in scan order, that is neither
\* free space nor an end of segment marker and bears the name.
RECURSIVE ScanByString(_, _, _)
ScanByString(d, p, name) ==
  LET q == increment(d, p) IN
  IF afterEnd(q) \/ Wild(q) THEN q
  ELSE IF Slot(d, q).st \in {"MPTY", "EOS"} THEN ScanByString(d, q, name)
  ELSE IF Slot(d, q).name = name THEN q
  ELSE ScanByString(d, q, name)

getDirPointerS(d, name) == ScanByString(d, startScan(d), name)

RECURSIVE ScanByRad50(_, _, _)
ScanByRad50(d, p, name) ==
  LET q == increment(d, p) IN
  IF afterEnd(q) \/ Wild(q) THEN q
  ELSE IF Slot(d, q).st = "EOS" THEN ScanByRad50(d, q, name)
  ELSE IF Slot(d, q).name = name THEN q
  ELSE ScanByRad50(d, q, name)

getDirPointer(d, name) == ScanByRad50(d, startScan(d), name)

RECURSIVE ScanLargest(_, _, _, _)
ScanLargest(d, p, largestBlock, largestBlockPtr) ==
  LET q == increment(d, p) IN
  IF afterEnd(q) \/ Wild(q)
    THEN IF largestBlock <= 0 THEN q ELSE largestBlockPtr
  ELSE IF Slot(d, q).st = "MPTY" /\ Slot(d, q).len > largestBlock
    THEN ScanLargest(d, q, Slot(d, q).len, q)
  ELSE ScanLargest(d, q, largestBlock, largestBlockPtr)

findLargestFreeBlock(d) == ScanLargest(d, startScan(d), -1, startScan(d))

\* The last cursor a forward scan reaches before running off the end.
RECURSIVE LastEntry(_, _)
LastEntry(d, eos) ==
  LET nextp == next(d, eos) IN
  IF afterEnd(nextp) \/ Wild(nextp) THEN eos ELSE LastEntry(d, nextp)

\* ------------------------------------------------------------------------
\* Directory: moving entries
\* ------------------------------------------------------------------------
\* memmove of count slots, read from the block as it was before the copy
CopyEntries(d, src, dst, count) ==
  [d EXCEPT !.segs = [s \in Segs |->
     IF s # dst.base THEN d.segs[s]
     ELSE [d.segs[s] EXCEPT !.ent = [i \in 1..maxEntriesPerSegment |->
        IF i - 1 >= dst.index /\ i - 1 < dst.index + count
          THEN d.segs[src.base].ent[src.index + (i - 1 - dst.index) + 1]
          ELSE d.segs[s].ent[i]]]],
            !.dirty = TRUE]

RECURSIVE LogMoves(_, _, _, _, _)
LogMoves(d, dd, s, t, c) ==
  IF c = 0 THEN dd
  ELSE LogMoves(d, moveDirEntry(dd, s, t), increment(d, s), increment(d, t), c - 1)

moveEntriesWithinSegment(d, src, dst, count) ==
  IF src.segment # dst.segment THEN Fault(d, "assert_same_segment")
  ELSE IF ~(count > 0 /\ count <= maxEntriesPerSegment) THEN Fault(d, "assert_count")
  ELSE IF ~(src.index + count <= maxEntriesPerSegment) THEN Fault(d, "assert_src_bounds")
  ELSE IF ~(dst.index + count <= maxEntriesPerSegment) THEN Fault(d, "assert_dst_bounds")
  ELSE CopyEntries(endTransaction(LogMoves(d, beginTransaction(d), src, dst, count)),
                   src, dst, count)

moveEntryAcrossSegments(d, src, dst) ==
  IF Wild(src) \/ Wild(dst) THEN Fault(d, "oob")
  ELSE CopyEntries(endTransaction(moveDirEntry(beginTransaction(d), src, dst)),
                   src, dst, 1)

\* ------------------------------------------------------------------------
\* Directory: segment allocation, insertion, deletion, spill
\* ------------------------------------------------------------------------
\* (variant) the new segment is linked but highest_segment is left as it was
allocateNewSegment_NoCount(d) ==
  LET nxt == 1 + d.hi
      eos == LastEntry(d, startScan(d))
  IN IF nxt > d.total THEN Res(d, -ENOSPC, eos)
     ELSE Res([d EXCEPT !.segs = [s \in Segs |->
                   IF s = nxt
                     THEN [next |-> 0, first |-> eos.datasec,
                           ent |-> [d.segs[s].ent EXCEPT ![1] = EosEnt]]
                   ELSE IF s = eos.base THEN [d.segs[s] EXCEPT !.next = nxt]
                   ELSE d.segs[s]],
                 !.dirty = TRUE], 0, eos)

\* (variant) the count is raised before it is compared
allocateNewSegment_Late(d) ==
  LET nxt == 1 + d.hi
      eos == LastEntry(d, startScan(d))
  IN IF nxt > d.total THEN Res([d EXCEPT !.hi = nxt], -ENOSPC, eos)
     ELSE Res([d EXCEPT !.segs = [s \in Segs |->
                   IF s = nxt
                     THEN [next |-> 0, first |-> eos.datasec,
                           ent |-> [d.segs[s].ent EXCEPT ![1] = EosEnt]]
                   ELSE IF s = eos.base THEN [d.segs[s] EXCEPT !.next = nxt]
                   ELSE d.segs[s]],
                 !.hi = nxt, !.dirty = TRUE], 0, eos)

allocateNewSegment(d) ==
  LET nxt == 1 + d.hi
      eos == LastEntry(d, startScan(d))
  IN IF nxt > d.total THEN Res(d, -ENOSPC, eos)
     ELSE Res([d EXCEPT !.segs = [s \in Segs |->
                   IF s = nxt
                     THEN [next |-> 0, first |-> eos.datasec,
                           ent |-> [d.segs[s].ent EXCEPT ![1] = EosEnt]]
                   ELSE IF s = eos.base THEN [d.segs[s] EXCEPT !.next = nxt]
                   ELSE d.segs[s]],
                 !.hi = nxt, !.dirty = TRUE], 0, eos)

RECURSIVE insertEmptyAt(_, _)
RECURSIVE spillLastEntry(_, _)

\* (variant) the end of segment marker is left out of the entries moved
insertEmptyAt_DropEos(d, dirp) ==
  Bind(advanceToEndOfSegment(d, dirp), LAMBDA eos0 :
  IF Wild(eos0) THEN Res(Fault(d, "oob"), 0, dirp) ELSE
  Bind(IF eos0.index >= maxEntriesPerSegment - 1
         THEN spillLastEntry(d, dirp) ELSE Res(d, 0, dirp), LAMBDA sp :
  IF ~Ok(sp.d) \/ sp.err # 0 THEN Res(sp.d, sp.err, dirp) ELSE
  Bind(advanceToEndOfSegment(sp.d, dirp), LAMBDA eos :
  IF Wild(eos) THEN Res(Fault(sp.d, "oob"), 0, dirp)
  ELSE
  Bind(moveEntriesWithinSegment(sp.d, dirp, incIndex(dirp),
                                eos.index - dirp.index), LAMBDA d2 :
  IF ~Ok(d2) THEN Res(d2, 0, dirp)
  ELSE Res(setEnt(d2, dirp, Ent("MPTY", 0, 0)), 0, dirp)))))

insertEmptyAt(d, dirp) ==
  Bind(advanceToEndOfSegment(d, dirp), LAMBDA eos0 :
  IF Wild(eos0) THEN Res(Fault(d, "oob"), 0, dirp) ELSE
  Bind(IF eos0.index >= maxEntriesPerSegment - 1
         THEN spillLastEntry(d, dirp) ELSE Res(d, 0, dirp), LAMBDA sp :
  IF ~Ok(sp.d) \/ sp.err # 0 THEN Res(sp.d, sp.err, dirp) ELSE
  Bind(advanceToEndOfSegment(sp.d, dirp), LAMBDA eos :
  IF Wild(eos) THEN Res(Fault(sp.d, "oob"), 0, dirp)
  ELSE IF eos0.index >= maxEntriesPerSegment - 1
          /\ ~(eos.segment < maxEntriesPerSegment - 1)
    THEN Res(Fault(sp.d, "assert_insert_eos"), 0, dirp)
  ELSE
  Bind(moveEntriesWithinSegment(sp.d, dirp, incIndex(dirp),
                                eos.index - dirp.index + 1), LAMBDA d2 :
  IF ~Ok(d2) THEN Res(d2, 0, dirp)
  ELSE Res(setEnt(d2, dirp, Ent("MPTY", 0, 0)), 0, dirp)))))

spillLastEntry(d, dirp) ==
  Bind(advanceToEndOfSegment(d, dirp), LAMBDA eos :
  IF Wild(eos) THEN Res(Fault(d, "oob"), 0, dirp)
  ELSE IF eos.index = 0 THEN Res(d, 0, dirp) ELSE
  Bind(IF afterEnd(next(d, eos)) THEN allocateNewSegment(d)
       ELSE Res(d, 0, eos), LAMBDA al :
  IF al.err # 0 THEN Res(al.d, al.err, dirp) ELSE
  Bind(next(al.d, eos), LAMBDA nxt :
  Bind(prev(al.d, eos), LAMBDA last :
  IF afterEnd(nxt) THEN Res(Fault(al.d, "assert_spill_next"), 0, dirp)
  ELSE IF Wild(last) THEN Res(Fault(al.d, "oob"), 0, dirp)
  ELSE IF last.datasec + Slot(al.d, last).len # nxt.datasec
    THEN Res(Fault(al.d, "assert_spill_adjacent"), 0, dirp)
  ELSE
  Bind(insertEmptyAt(al.d, nxt), LAMBDA ins :
  IF ~Ok(ins.d) \/ ins.err # 0 THEN Res(ins.d, ins.err, dirp)
  ELSE IF nxt.index # 0 THEN Res(Fault(ins.d, "assert_spill_index"), 0, dirp)
  ELSE
  Bind(moveEntryAcrossSegments(ins.d, last, nxt), LAMBDA d3 :
  IF ~Ok(d3) THEN Res(d3, 0, dirp)
  ELSE Res(setEnt([d3 EXCEPT !.segs[nxt.base].first = last.datasec,
                             !.dirty = TRUE],
                  last, EosEnt), 0, dirp)))))))

deleteEmptyAt(d, dirp) ==
  Bind(advanceToEndOfSegment(d, dirp), LAMBDA eos :
  IF Wild(dirp) \/ Wild(eos) THEN Fault(d, "oob")
  ELSE IF Slot(d, dirp).len # 0 THEN Fault(d, "assert_delete_len")
  ELSE moveEntriesWithinSegment(d, incIndex(dirp), dirp,
                                eos.index - incIndex(dirp).index + 1))

\* ------------------------------------------------------------------------
\* Directory: free space
\* ------------------------------------------------------------------------
\* Returns in err the number of entries inserted (0 or 1) or a negated errno.
carveFreeBlock(d, dirp, size) ==
  IF size > Slot(d, dirp).len THEN Res(d, -EINVAL, dirp)
  ELSE IF size = Slot(d, dirp).len THEN Res(d, 0, dirp)
  ELSE
  Bind(next(d, dirp), LAMBDA nxt :
  Bind(insertEmptyAt(d, nxt), LAMBDA ins :
  IF ~Ok(ins.d) \/ ins.err # 0 THEN Res(ins.d, ins.err, dirp)
  ELSE
  Bind(Slot(ins.d, dirp).len - size, LAMBDA delta :
  Res(setLen(setLen(ins.d, dirp, Slot(ins.d, dirp).len - delta), nxt, delta),
      1, dirp))))

RECURSIVE WalkToFirst(_, _)
WalkToFirst(d, first) ==
  Bind(prev(d, first), LAMBDA pv :
  IF beforeStart(pv) \/ ~hasStatus(d, pv, "MPTY") THEN first
  ELSE WalkToFirst(d, pv))

RECURSIVE Absorb(_, _)
Absorb(d, first) ==
  Bind(next(d, first), LAMBDA nxt :
  IF afterEnd(nxt) \/ ~hasStatus(d, nxt, "MPTY") THEN d
  ELSE
  Bind(deleteEmptyAt(setLen(setLen(d, first, Slot(d, first).len + Slot(d, nxt).len),
                            nxt, 0), nxt), LAMBDA d2 :
  IF ~Ok(d2) THEN d2 ELSE Absorb(d2, first)))

\* A cursor past the end has no previous entry to leave it by: the walk to
\* the first free block of the run cannot end.
coalesceNeighboringFreeBlocks(d, ptr) ==
  IF ~hasStatus(d, ptr, "MPTY") THEN d
  ELSE IF afterEnd(ptr) THEN Fault(d, "hang")
  ELSE Absorb(d, WalkToFirst(d, ptr))

\* ------------------------------------------------------------------------
\* Directory: shrink and grow
\* ------------------------------------------------------------------------
\* (variant) a free block is inserted whatever follows the entry
shrinkEntry_AlwaysInsert(d, dirp, newSize) ==
  Bind(next(d, dirp), LAMBDA nextp :
  IF Wild(nextp) THEN Res(Fault(d, "oob"), 0, dirp) ELSE
  Bind(insertEmptyAt(d, nextp), LAMBDA ins :
  IF ~Ok(ins.d) \/ ins.err # 0 THEN Res(ins.d, ins.err, dirp) ELSE
  Bind(Slot(ins.d, dirp).len - newSize, LAMBDA delta :
  IF ~(delta > 0) THEN Res(Fault(ins.d, "assert_shrink_delta"), 0, dirp)
  ELSE Res(setLen(setLen(ins.d, dirp, newSize), nextp,
                  Slot(ins.d, nextp).len + delta), 0, dirp))))

shrinkEntry(d, dirp, newSize) ==
  Bind(next(d, dirp), LAMBDA nextp :
  IF Wild(nextp) THEN Res(Fault(d, "oob"), 0, dirp) ELSE
  Bind(IF ~hasStatus(d, nextp, "MPTY") THEN insertEmptyAt(d, nextp)
       ELSE Res(d, 0, nextp), LAMBDA ins :
  IF ~Ok(ins.d) \/ ins.err # 0 THEN Res(ins.d, ins.err, dirp) ELSE
  Bind(Slot(ins.d, dirp).len - newSize, LAMBDA delta :
  IF ~(delta > 0) THEN Res(Fault(ins.d, "assert_shrink_delta"), 0, dirp)
  ELSE Res(setLen(setLen(ins.d, dirp, newSize), nextp,
                  Slot(ins.d, nextp).len + delta), 0, dirp))))

\* (variant) the free block that follows keeps its length
GrowInPlace_KeepFree(d, dirp, nxt, newSize) ==
  setLen(d, dirp, newSize)

\* grow in place: the free block that follows gives up delta sectors
GrowInPlace(d, dirp, nxt, newSize) ==
  Bind(setLen(setLen(d, dirp, newSize), nxt,
              Slot(d, nxt).len - (newSize - Slot(d, dirp).len)), LAMBDA g1 :
  IF Slot(g1, nxt).len = 0 THEN deleteEmptyAt(g1, nxt) ELSE g1)

\* move to the largest free block newp, carved to newSize
CopySectors_Skip(d, src, dst, cnt) == d

\* The loop of growEntry that copies the file's sectors to the free block,
\* one sector at a time through the cache; d.data is the content of the
\* data sectors.  A sector outside the volume cannot be read: getBlock
\* throws the I/O fault.
RECURSIVE CopySectors(_, _, _, _)
CopySectors(d, src, dst, cnt) ==
  IF cnt = 0 THEN d
  ELSE IF src \notin DOMAIN d.data \/ dst \notin DOMAIN d.data THEN Fault(d, "eio")
  ELSE CopySectors([d EXCEPT !.data[dst] = d.data[src], !.dirty = TRUE], src + 1, dst + 1, cnt - 1)

Relocate(d, dirp0, newp, newSize) ==
  Bind(Slot(d, dirp0).name, LAMBDA name :
  Bind(carveFreeBlock(d, newp, newSize), LAMBDA cv :
  IF ~Ok(cv.d) \/ cv.err < 0 THEN Res(cv.d, cv.err, dirp0) ELSE
  Bind(IF cv.err = 1 /\ newp.segment = dirp0.segment /\ newp.index < dirp0.index
         THEN incIndex(dirp0) ELSE dirp0, LAMBDA dirp :
  IF Wild(dirp) THEN Res(Fault(cv.d, "oob"), 0, dirp) ELSE
  Bind(CopySectors(cv.d, dirp.datasec, newp.datasec, Slot(cv.d, dirp).len),
       LAMBDA dc :
  IF ~Ok(dc) THEN Res(dc, 0, dirp) ELSE
  Bind(moveEntryAcrossSegments(dc, dirp, newp), LAMBDA d2 :
  IF ~Ok(d2) THEN Res(d2, 0, dirp) ELSE
  Bind(setLen(d2, newp, newSize), LAMBDA d3 :
  Bind(coalesceNeighboringFreeBlocks(
         setEnt(d3, dirp, Ent("MPTY", 0, Slot(d3, dirp).len)), dirp), LAMBDA d5 :
  IF ~Ok(d5) THEN Res(d5, 0, dirp)
  ELSE Res(d5, 0, getDirPointer(d5, name)))))))))

growEntry(d, dirp0, newSize) ==
  Bind(next(d, dirp0), LAMBDA nxt :
  IF Wild(nxt) THEN Res(Fault(d, "oob"), 0, dirp0)
  ELSE IF hasStatus(d, nxt, "MPTY")
          /\ newSize <= Slot(d, dirp0).len + Slot(d, nxt).len
    THEN Res(GrowInPlace(d, dirp0, nxt, newSize), 0, dirp0)
  ELSE
  Bind(findLargestFreeBlock(d), LAMBDA newp :
  IF Wild(newp) THEN Res(Fault(d, "oob"), 0, dirp0)
  ELSE IF afterEnd(newp) \/ Slot(d, newp).len < newSize THEN Res(d, -ENOSPC, dirp0)
  ELSE Relocate(d, dirp0, newp, newSize)))

\* ------------------------------------------------------------------------
\* Directory: public operations.  The result carries the directory, the
\* return value, the caller's cursor and the caller's move vector.
\* ------------------------------------------------------------------------
Sectors(bytes) == (bytes + SECTOR_SIZE - 1) \div SECTOR_SIZE

\* out is the caller's move vector, passed in empty
Pub(d, err, p, out) == [d |-> d, err |-> err, p |-> p, out |-> out]

\* (variant) without the early return for an unchanged size
truncate_NoEarlyReturn(d, dirp, newSizeBytes) ==
  Bind(NewTracker(d), LAMBDA t :
  IF Wild(dirp) THEN Pub(Fault(t, "oob"), 0, dirp, <<>>)
  ELSE
  Bind(IF Sectors(newSizeBytes) < Slot(d, dirp).len
         THEN shrinkEntry(t, dirp, Sectors(newSizeBytes))
         ELSE growEntry(t, dirp, Sectors(newSizeBytes)), LAMBDA r :
  IF ~Ok(r.d) THEN Pub(r.d, 0, r.p, <<>>)
  ELSE IF r.err < 0 THEN Pub(r.d, r.err, r.p, <<>>)
  ELSE Pub(r.d, 0, r.p, getMoves(r.d))))

truncate(d, dirp, newSizeBytes) ==
  Bind(NewTracker(d), LAMBDA t :
  IF Wild(dirp) THEN Pub(Fault(t, "oob"), 0, dirp, <<>>)
  ELSE IF Sectors(newSizeBytes) = Slot(d, dirp).len THEN Pub(t, 0, dirp, <<>>)
  ELSE
  Bind(IF Sectors(newSizeBytes) < Slot(d, dirp).len
         THEN shrinkEntry(t, dirp, Sectors(newSizeBytes))
         ELSE growEntry(t, dirp, Sectors(newSizeBytes)), LAMBDA r :
  IF ~Ok(r.d) THEN Pub(r.d, 0, r.p, <<>>)
  ELSE IF r.err < 0 THEN Pub(r.d, r.err, r.p, <<>>)
  ELSE Pub(r.d, 0, r.p, getMoves(r.d))))

\* (variant) the removed entry's length is reset, its sectors are lost
removeEntry_DropLength(d, name) ==
  Bind(getDirPointerS(d, name), LAMBDA dirp :
  Bind(NewTracker(d), LAMBDA t :
  IF Wild(dirp) THEN Pub(Fault(t, "oob"), 0, dirp, <<>>)
  ELSE IF afterEnd(dirp) THEN Pub(t, -ENOENT, dirp, <<>>)
  ELSE
  Bind(coalesceNeighboringFreeBlocks(
         setLen(setName(setStatus(t, dirp, "MPTY"), dirp, 0), dirp, 0), dirp), LAMBDA d2 :
  IF ~Ok(d2) THEN Pub(d2, 0, dirp, <<>>)
  ELSE Pub(d2, 0, dirp, getMoves(d2)))))

removeEntry(d, name) ==
  Bind(getDirPointerS(d, name), LAMBDA dirp :
  Bind(NewTracker(d), LAMBDA t :
  IF Wild(dirp) THEN Pub(Fault(t, "oob"), 0, dirp, <<>>)
  ELSE IF afterEnd(dirp) THEN Pub(t, -ENOENT, dirp, <<>>)
  ELSE
  Bind(coalesceNeighboringFreeBlocks(
         setName(setStatus(t, dirp, "MPTY"), dirp, 0), dirp), LAMBDA d2 :
  IF ~Ok(d2) THEN Pub(d2, 0, dirp, <<>>)
  ELSE Pub(d2, 0, dirp, getMoves(d2)))))

\* BlockCache::sync, every write coming through: no block is left dirty.
sync(d) == [d EXCEPT !.dirty = FALSE]

rename(d, oldName, newName) ==
  Bind(getDirPointer(d, oldName), LAMBDA oldp :
  Bind(NewTracker(d), LAMBDA t :
  IF Wild(oldp) THEN Pub(Fault(t, "oob"), 0, oldp, <<>>)
  ELSE IF afterEnd(oldp) THEN Pub(t, -ENOENT, oldp, <<>>)
  ELSE Pub(sync(setName(t, oldp, newName)), 0, oldp, <<>>)))

\* The new entry goes in at dirp, in front of the free block.
CreateAt(d1, dirp, name) ==
  Bind(insertEmptyAt(d1, dirp), LAMBDA ins :
  IF ~Ok(ins.d) THEN Pub(ins.d, 0, dirp, <<>>)
  ELSE IF ins.err # 0 THEN Pub(ins.d, ins.err, dirp, <<>>)
  ELSE Pub(setEnt(ins.d, dirp, Ent("TENT", name, Slot(ins.d, dirp).len)),
           0, dirp, <<>>))

\* The tracker's log is never copied to the caller's vector (lines 446-500).
createEntry(d, name) ==
  Bind(NewTracker(d), LAMBDA t :
  Bind(findLargestFreeBlock(t), LAMBDA free :
  IF Wild(free) THEN Pub(Fault(t, "oob"), 0, free, <<>>)
  ELSE IF afterEnd(free) THEN Pub(t, -ENOSPC, free, <<>>)
  ELSE IF ~beforeStart(prev(t, free)) /\ hasStatus(t, prev(t, free), "TENT")
    THEN Bind(carveFreeBlock(t, free, Slot(t, free).len \div 2), LAMBDA cv :
         IF ~Ok(cv.d) THEN Pub(cv.d, 0, free, <<>>)
         ELSE IF cv.err < 0 THEN Pub(cv.d, cv.err, free, <<>>)
         ELSE Bind(increment(cv.d, free), LAMBDA dirp :
              IF afterEnd(dirp) THEN Pub(Fault(cv.d, "assert_create_end"), 0, dirp, <<>>)
              ELSE IF ~hasStatus(cv.d, dirp, "MPTY")
                THEN Pub(Fault(cv.d, "assert_create_mpty"), 0, dirp, <<>>)
              ELSE CreateAt(cv.d, dirp, name)))
  ELSE CreateAt(t, free, name)))

makeEntryPermanent(d, dirp) ==
  IF hasStatus(d, dirp, "TENT") THEN setStatus(d, dirp, "PERM") ELSE d

\* ------------------------------------------------------------------------
\* State
\* ------------------------------------------------------------------------
VARIABLES
  segs,     \* the directory block: per segment next, first data sector, slots
  hi,       \* highest_segment word of segment 1
  fault,    \* "none", or the assertion or range check that ended the process
  files,    \* OpenFileTable::openFiles: sequence of [refcnt, dirp]
  moves,    \* the move vector the last directory call handed back
  ret,      \* return value of the last call
  cur,      \* the caller's cursor after the last directory call
  op,       \* the last call and its arguments
  mountHi,  \* history: the highest_segment word of the image as mounted
  opened,   \* history: per slot, the name its handles were opened for
  totalSegs, \* total_segments word of segment 1: the segments the image has
  dirty,    \* some block of the cache has been written since the last sync
  blocks,   \* BlockCache::blocks, in list order
  dataSource, \* the image behind the cache: what each of its sectors holds
  cacheRet, \* the last call of the cache, its error and the block it gave
  disk      \* content of the data sectors, as seen through the cache

vars == <<segs, hi, fault, files, moves, ret, cur, op, mountHi, opened, disk,
          totalSegs, dirty, blocks, dataSource, cacheRet>>

\* BlockCache::getVolumeSectors: the sectors of the image.
VolumeSectors == FirstDataSector + Cardinality(DOMAIN disk)

Dir == [segs |-> segs, hi |-> hi, tx |-> -1, mv |-> <<>>, fault |-> fault,
        data |-> disk, total |-> totalSegs,
        dirty |-> dirty]

\* ------------------------------------------------------------------------
\* Valid images: every segment in use is a run of entries closed by an end
\* of segment marker, the entries tile the data region, names are distinct
\* and no two free blocks are adjacent.
\* ------------------------------------------------------------------------
RECURSIVE Layouts(_, _, _, _)
Layouts(k, total, lastFree, nameFrom) ==
  IF k = 0 THEN (IF total = 0 THEN {<<>>} ELSE {})
  ELSE UNION (
    { { <<Ent("PERM", nameFrom, l)>> \o rest :
          rest \in Layouts(k - 1, total - l, FALSE, nameFrom + 1) } :
        l \in IF nameFrom <= NumNames THEN 0..(IF total < 2 THEN total ELSE 2) ELSE {} }
    \cup
    { { <<Ent("MPTY", 0, l)>> \o rest :
          rest \in Layouts(k - 1, total - l, TRUE, nameFrom) } :
        l \in IF lastFree THEN {} ELSE 1..total } )

NumFiles(lay) == Cardinality({i \in 1..Len(lay) : lay[i].st = "PERM"})

Slots(lay) ==
  [i \in 1..maxEntriesPerSegment |->
     IF i <= Len(lay) THEN lay[i] ELSE IF i = Len(lay) + 1 THEN EosEnt ELSE ZeroEnt]

RECURSIVE SumLen(_)
SumLen(lay) == IF lay = <<>> THEN 0 ELSE Head(lay).len + SumLen(Tail(lay))

EmptySegment == [next |-> 0, first |-> 0, ent |-> [i \in 1..maxEntriesPerSegment |-> ZeroEnt]]

\* Images with one segment in use.
OneSegmentImages(total) ==
  { [s \in Segs |-> IF s = 1
       THEN [next |-> 0, first |-> FirstDataSector, ent |-> Slots(lay)]
       ELSE EmptySegment] :
    lay \in UNION { Layouts(k, total, FALSE, 1) : k \in 1..(maxEntriesPerSegment - 1) } }

\* Images with two segments in use: the first is full.
TwoSegmentImages(total) ==
  IF TotalSegments < 2 THEN {}
  ELSE UNION { UNION { { [s \in Segs |->
         IF s = 1 THEN [next |-> 2, first |-> FirstDataSector, ent |-> Slots(l1)]
         ELSE IF s = 2 THEN [next |-> 0, first |-> FirstDataSector + t1, ent |-> Slots(l2)]
         ELSE EmptySegment] :
       l2 \in UNION { Layouts(k, total - t1,
                              l1[Len(l1)].st = "MPTY", NumFiles(l1) + 1) :
                      k \in 0..1 } } :
     l1 \in Layouts(maxEntriesPerSegment - 1, t1, FALSE, 1) } : t1 \in 0..total }

\* ------------------------------------------------------------------------
\* BlockCache on its own data source.  A block is [id, sector, count,
\* refcount, dirty, data, lent]: id stands for the Block's address, data
\* is the buffer, one value per whole sector it holds, and lent is the
\* history of the borrows: calls of getBlock that returned the block less
\* calls of putBlock on it.
\* ------------------------------------------------------------------------
Values == 0..MaxValue

SourceSectors == 0..(CacheSectors - 1)

\* MemoryDataSource::read and write: the whole range lies in the image
InSource(sector, count) == sector >= 0 /\ sector + count <= CacheSectors

Cache == [blocks |-> blocks, src |-> dataSource]

Got(c, err, bp) == [c |-> c, err |-> err, bp |-> bp]

InsertAt(seq, i, e) == SubSeq(seq, 1, i - 1) \o <<e>> \o SubSeq(seq, i, Len(seq))

\* The address of the next Block allocated.
NewId(c) == Len(c.blocks) + 1

\* new Block, Block::read and the insert in front of list position i
ReadIn(c, sector, count, i) ==
  IF ~InSource(sector, count) THEN Got(c, -EIO, 0)
  ELSE Got([c EXCEPT !.blocks = InsertAt(@, i,
              [id |-> NewId(c), sector |-> sector, count |-> count,
               refcount |-> 0, dirty |-> FALSE, lent |-> 1,
               data |-> [k \in 1..count |-> c.src[sector + k - 1]]])],
           0, NewId(c))

\* The loop of getBlock from list position i on.
RECURSIVE GetWalk(_, _, _, _)
GetWalk(c, sector, count, i) ==
  IF i > Len(c.blocks) THEN ReadIn(c, sector, count, i)
  ELSE IF c.blocks[i].sector = sector
    THEN IF c.blocks[i].count # count THEN Got(c, -EINVAL, 0)
         ELSE Got([c EXCEPT !.blocks[i].refcount = @ + 1,
                            !.blocks[i].lent = @ + 1], 0, c.blocks[i].id)
  ELSE IF sector >= c.blocks[i].sector + c.blocks[i].count
    THEN GetWalk(c, sector, count, i + 1)
  ELSE IF sector + count <= c.blocks[i].sector THEN ReadIn(c, sector, count, i)
  ELSE IF c.blocks[i].count # count THEN Got(c, -EINVAL, 0)
  ELSE GetWalk(c, sector, count, i + 1)

getBlock(c, sector, count) == GetWalk(c, sector, count, 1)

\* List position of the Block at address bp, 0 if the list has none.
Find(c, bp) ==
  IF \E i \in 1..Len(c.blocks) : c.blocks[i].id = bp
    THEN CHOOSE i \in 1..Len(c.blocks) : c.blocks[i].id = bp
    ELSE 0

putBlock(c, bp) ==
  Got([c EXCEPT !.blocks[Find(c, bp)].refcount = @ - 1,
                !.blocks[Find(c, bp)].lent = @ - 1], 0, bp)

\* Block::resize of the block at list position i.  The buffer is resized
\* first; a block that grows reads its new sectors from the data source,
\* and when that read fails the buffer is cut to count bytes, less than a
\* sector, and the count stays.
resize(c, i, newCount) ==
  IF newCount > c.blocks[i].count
       /\ ~InSource(c.blocks[i].sector + c.blocks[i].count,
                    newCount - c.blocks[i].count)
    THEN Got([c EXCEPT !.blocks[i].data = <<>>], -EIO, c.blocks[i].id)
  ELSE Got([c EXCEPT !.blocks[i].count = newCount,
                     !.blocks[i].data = [k \in 1..newCount |->
                        IF k <= Len(c.blocks[i].data) THEN c.blocks[i].data[k]
                        ELSE IF k <= c.blocks[i].count THEN 0
                        ELSE c.src[c.blocks[i].sector + k - 1]]],
           0, c.blocks[i].id)

(* (variant) the bound of the next block is not looked at *)
resizeBlock_NoNext(c, bp, count) ==
  IF count <= 0 THEN Got(c, -EINVAL, bp)
  ELSE IF Find(c, bp) = 0 THEN Got(c, -EINVAL, bp)
  ELSE resize(c, Find(c, bp), count)

resizeBlock(c, bp, count) ==
  IF count <= 0 THEN Got(c, -EINVAL, bp)
  ELSE IF Find(c, bp) = 0 THEN Got(c, -EINVAL, bp)
  ELSE IF Find(c, bp) < Len(c.blocks)
          /\ c.blocks[Find(c, bp)].sector + count > c.blocks[Find(c, bp) + 1].sector
    THEN Got(c, -EINVAL, bp)
  ELSE resize(c, Find(c, bp), count)

\* Block::write of the block at list position i: count sectors from the
\* start of the buffer.  Where the buffer is shorter the bytes written are
\* whatever lies behind it in memory: junk.
write(c, i, junk) ==
  [c EXCEPT !.src = [s \in SourceSectors |->
                 IF s >= c.blocks[i].sector /\ s < c.blocks[i].sector + c.blocks[i].count
                   THEN IF s - c.blocks[i].sector + 1 <= Len(c.blocks[i].data)
                          THEN c.blocks[i].data[s - c.blocks[i].sector + 1]
                          ELSE junk
                   ELSE c.src[s]],
            !.blocks[i].dirty = FALSE]

\* The loop of BlockCache::sync from list position i on.
RECURSIVE SyncFrom(_, _, _)
SyncFrom(c, i, junk) ==
  IF i > Len(c.blocks) THEN Got(c, 0, 0)
  ELSE IF ~c.blocks[i].dirty THEN SyncFrom(c, i + 1, junk)
  ELSE IF ~InSource(c.blocks[i].sector, c.blocks[i].count) THEN Got(c, -EIO, 0)
  ELSE SyncFrom(write(c, i, junk), i + 1, junk)

\* what the model hands back for std::out_of_range, which is no errno
OutOfRange == -1

\* Block::setByte at an offset in sector k of the buffer; vector::at throws
\* past the end of the buffer.
setByte(c, i, k, value) ==
  IF k > Len(c.blocks[i].data) THEN Got(c, OutOfRange, c.blocks[i].id)
  ELSE Got([c EXCEPT !.blocks[i].data[k] = value, !.blocks[i].dirty = TRUE],
           0, c.blocks[i].id)

InitBlockCache ==
  /\ blocks = <<>>
  /\ dataSource = [s \in SourceSectors |-> 0]
  /\ cacheRet = [name |-> "none", err |-> 0, bp |-> 0, arg |-> 0]

\* What a sector holds is a pair: its first byte and the bytes after it.
\* Every data sector starts with content of its own.
InitVolume(total) ==
  disk = [s \in FirstDataSector..(FirstDataSector + total - 1) |-> <<s, s>>]

\* A volume whose data sectors have been zeroed.
InitZeroVolume(total) ==
  disk = [s \in FirstDataSector..(FirstDataSector + total - 1) |-> <<0, 0>>]

InitCommon ==
  /\ fault = "none"
  /\ dirty = FALSE
  /\ InitBlockCache
  /\ files = <<>>
  /\ opened = <<>>
  /\ moves = <<>>
  /\ ret = 0
  /\ cur = Ptr(-1, 1, 0, FirstDataSector)
  /\ op = [name |-> "mount"]

Init ==
  /\ \/ segs \in OneSegmentImages(DataSectors) /\ hi = 1
     \/ segs \in TwoSegmentImages(DataSectors) /\ hi = 2
  /\ mountHi = hi
  /\ InitVolume(DataSectors)
  /\ totalSegs = TotalSegments
  /\ InitCommon

\* The same on a volume with room to move a file that holds data, the
\* directory of one segment in use having room for one segment or more.
InitData ==
  /\ \/ segs \in OneSegmentImages(BigDataSectors) /\ hi = 1
        /\ totalSegs \in 1..TotalSegments
     \/ segs \in TwoSegmentImages(BigDataSectors) /\ hi = 2
        /\ totalSegs = TotalSegments
  /\ mountHi = hi
  /\ InitVolume(BigDataSectors)
  /\ InitCommon

\* ------------------------------------------------------------------------
\* Directory called directly, each call with a cursor freshly looked up
\* ------------------------------------------------------------------------
SizeInputs == {0, 1} \cup {k * SECTOR_SIZE : k \in 1..MaxSize}

Call(name, file, size) == [name |-> name, file |-> file, size |-> size]

Returned(r, call) ==
  /\ segs' = r.d.segs
  /\ hi' = r.d.hi
  /\ fault' = r.d.fault
  /\ disk' = r.d.data
  /\ dirty' = r.d.dirty
  /\ moves' = r.out
  /\ ret' = r.err
  /\ cur' = r.p
  /\ op' = call
  /\ UNCHANGED <<mountHi, totalSegs, blocks, dataSource, cacheRet>>

Exists(d, name) == ~afterEnd(getDirPointerS(d, name))

DirTruncate(n, bytes) ==
  /\ fault = "none"
  /\ Exists(Dir, n)
  /\ Returned(truncate(Dir, getDirPointerS(Dir, n), bytes), Call("truncate", n, bytes))
  /\ UNCHANGED <<files, opened>>

DirRemove(n) ==
  /\ fault = "none"
  /\ Returned(removeEntry(Dir, n), Call("remove", n, 0))
  /\ UNCHANGED <<files, opened>>

\* The new name is one no entry bears: rename leaves an existing bearer of
\* the new name in place (line 423), which this specification keeps out.
DirRename(o, n) ==
  /\ fault = "none"
  /\ ~Exists(Dir, n)
  /\ Returned(rename(Dir, o, n), Call("rename", o, n))
  /\ UNCHANGED <<files, opened>>

\* OpenFileTable::createFile, its only caller, creates an entry only for a
\* name that is not in the directory.
DirCreate(n) ==
  /\ fault = "none"
  /\ ~Exists(Dir, n)
  /\ Returned(createEntry(Dir, n), Call("create", n, 0))
  /\ UNCHANGED <<files, opened>>

DirMakePermanent(n) ==
  /\ fault = "none"
  /\ Exists(Dir, n)
  /\ Returned(Pub(makeEntryPermanent(Dir, getDirPointerS(Dir, n)), 0,
                  getDirPointerS(Dir, n), <<>>), Call("permanent", n, 0))
  /\ UNCHANGED <<files, opened>>

NextDir ==
  \/ \E n \in Names, b \in SizeInputs : DirTruncate(n, b)
  \/ \E n \in Names : DirRemove(n)
  \/ \E o \in Names, n \in Names : DirRename(o, n)
  \/ \E n \in Names : DirCreate(n)
  \/ \E n \in Names : DirMakePermanent(n)

SpecDir == Init /\ [][NextDir]_vars

SpecData == InitData /\ [][NextDir]_vars

\* ------------------------------------------------------------------------
\* OpenFileTable
\* ------------------------------------------------------------------------
NoPtr == Ptr(-1, 1, 0, FirstDataSector)

SamePlace(p, q) == p.segment = q.segment /\ p.index = q.index

\* Slots are numbered from 0 as in the code; files[fd + 1] is slot fd.
RECURSIVE applyMoves(_, _)
applyMoves(fs, mv) ==
  IF mv = <<>> THEN fs
  ELSE LET m    == Head(mv)
           hits == {i \in 1..Len(fs) :
                      fs[i].dirp.segment = m.os /\ fs[i].dirp.index = m.oi}
       IN IF hits = {} THEN applyMoves(fs, Tail(mv))
          ELSE applyMoves(
                 [fs EXCEPT ![MinOf(hits)].dirp =
                    [setSegment(@, m.ns) EXCEPT !.index = m.ni]],
                 Tail(mv))

\* OpenFileTable::open: the table afterwards and the slot returned
open(fs, dirp) ==
  LET same == {i \in 1..Len(fs) : SamePlace(dirp, fs[i].dirp)}
      free == {i \in 1..Len(fs) : fs[i].refcnt = 0}
      entry == [refcnt |-> 1, dirp |-> dirp]
  IN IF same # {}
       THEN [fs |-> [fs EXCEPT ![MinOf(same)].refcnt = @ + 1], fd |-> MinOf(same) - 1]
     ELSE IF free # {}
       THEN [fs |-> [fs EXCEPT ![MinOf(free)] = entry], fd |-> MinOf(free) - 1]
     ELSE [fs |-> Append(fs, entry), fd |-> Len(fs)]

\* Whether opening slot fd of table fs stays within the bounds of the model
Within(fs, fd) ==
  /\ fd + 1 <= MaxSlots
  /\ fd + 1 <= Len(fs) => fs[fd + 1].refcnt < MaxRef

\* What a call of the table leaves: the directory, the table, the return
\* value, the slot it opened (0 if none) and whether it kept to the bounds.
Out(d, fs, r, slot, within) ==
  [d |-> d, fs |-> fs, ret |-> r, slot |-> slot, within |-> within]

openFile(d, fs, n) ==
  Bind(getDirPointerS(d, n), LAMBDA dirp :
  IF Wild(dirp) THEN Out(Fault(d, "oob"), fs, 0, 0, TRUE)
  ELSE IF afterEnd(dirp) THEN Out(d, fs, -ENOENT, 0, TRUE)
  ELSE Bind(open(fs, dirp), LAMBDA o :
       Out(d, o.fs, o.fd, o.fd + 1, Within(fs, o.fd))))

\* OpenFileTable::truncate; the directory works on the slot's own cursor
truncateFile(d, fs, fd, newSize) ==
  IF fs[fd + 1].refcnt <= 0 THEN Out(d, fs, -EINVAL, 0, TRUE)
  ELSE
  Bind(truncate(d, fs[fd + 1].dirp, newSize), LAMBDA r :
  Bind([fs EXCEPT ![fd + 1].dirp = r.p], LAMBDA fs1 :
  IF ~Ok(r.d) \/ r.err < 0 THEN Out(r.d, fs1, r.err, 0, TRUE)
  ELSE Out(r.d, applyMoves(fs1, r.out), r.err, 0, TRUE)))

\* (variant) an existing file is opened as it is
createFile_NoTruncate(d, fs, n) ==
  Bind(getDirPointerS(d, n), LAMBDA dirp :
  IF Wild(dirp) THEN Out(Fault(d, "oob"), fs, 0, 0, TRUE)
  ELSE IF ~afterEnd(dirp)
    THEN Bind(open(fs, dirp), LAMBDA o :
         Out(d, o.fs, o.fd, o.fd + 1, Within(fs, o.fd)))
  ELSE Bind(createEntry(d, n), LAMBDA c :
       IF ~Ok(c.d) \/ c.err < 0 THEN Out(c.d, fs, c.err, 0, TRUE)
       ELSE Bind(applyMoves(fs, c.out), LAMBDA fs1 :
            Bind(open(fs1, c.p), LAMBDA o :
            Out(c.d, o.fs, o.fd, o.fd + 1, Within(fs1, o.fd))))))

createFile(d, fs, n) ==
  Bind(getDirPointerS(d, n), LAMBDA dirp :
  IF Wild(dirp) THEN Out(Fault(d, "oob"), fs, 0, 0, TRUE)
  ELSE IF ~afterEnd(dirp)
    THEN Bind(open(fs, dirp), LAMBDA o :
         Bind(truncateFile(d, o.fs, o.fd, 0), LAMBDA t :
         Out(t.d, t.fs, IF t.ret < 0 THEN t.ret ELSE o.fd, o.fd + 1,
             Within(fs, o.fd))))
  ELSE Bind(createEntry(d, n), LAMBDA c :
       IF ~Ok(c.d) \/ c.err < 0 THEN Out(c.d, fs, c.err, 0, TRUE)
       ELSE Bind(applyMoves(fs, c.out), LAMBDA fs1 :
            Bind(open(fs1, c.p), LAMBDA o :
            Out(c.d, o.fs, o.fd, o.fd + 1, Within(fs1, o.fd))))))

closeFile(d, fs, fd) ==
  IF fs[fd + 1].refcnt <= 0 THEN Out(d, fs, -EINVAL, 0, TRUE)
  ELSE Out(IF fs[fd + 1].refcnt = 1
             THEN sync(makeEntryPermanent(d, fs[fd + 1].dirp)) ELSE d,
           [fs EXCEPT ![fd + 1].refcnt = @ - 1], 0, 0, TRUE)

\* Block::copyIn of tocopy bytes, each of them v, at the start of sector s:
\* a whole sector or its first byte.  The block is marked dirty.
copyIn(d, s, tocopy, v) ==
  [d EXCEPT !.data[s] = IF tocopy = SECTOR_SIZE THEN <<v, v>> ELSE <<v, @[2]>>,
            !.dirty = TRUE]

\* Block::zeroFill of sector s from byte tocopy to its end.
zeroFill(d, s, tocopy) ==
  IF tocopy < SECTOR_SIZE THEN [d EXCEPT !.data[s] = <<@[1], 0>>] ELSE d

\* The loop of writeFile, offset being at the start of a sector.  A sector
\* outside the volume cannot be fetched: getBlock throws the I/O fault.
RECURSIVE WriteLoop(_, _, _, _, _, _)
WriteLoop(d, sector0, offset, end, v, extendFile) ==
  IF offset >= end THEN d
  ELSE IF sector0 + offset \div SECTOR_SIZE \notin DOMAIN d.data THEN Fault(d, "eio")
  ELSE Bind(Least(SECTOR_SIZE, end - offset), LAMBDA tocopy :
       WriteLoop(IF extendFile
                   THEN zeroFill(copyIn(d, sector0 + offset \div SECTOR_SIZE, tocopy, v),
                                 sector0 + offset \div SECTOR_SIZE, tocopy)
                   ELSE copyIn(d, sector0 + offset \div SECTOR_SIZE, tocopy, v),
                 sector0, offset + tocopy, end, v, extendFile))

\* count bytes, each of them v, written at offset; the file is extended when
\* the write ends past its last sector.
writeFile(d, fs, fd, v, count, offset) ==
  IF fs[fd + 1].refcnt <= 0 THEN Out(d, fs, -EINVAL, 0, TRUE)
  ELSE IF offset + count > Slot(d, fs[fd + 1].dirp).len * SECTOR_SIZE
    THEN Bind(truncateFile(d, fs, fd, offset + count), LAMBDA t :
         IF t.ret < 0 \/ ~Ok(t.d) THEN Out(t.d, t.fs, t.ret, 0, TRUE)
         ELSE Out(WriteLoop(t.d, t.fs[fd + 1].dirp.datasec, offset, offset + count,
                            v, TRUE),
                  t.fs, count, 0, TRUE))
  ELSE Out(WriteLoop(d, fs[fd + 1].dirp.datasec, offset, offset + count, v, FALSE),
           fs, count, 0, TRUE)

\* What readFile leaves: the bytes in the caller's buffer, sector by sector
\* (a pair for a whole sector, the first byte alone otherwise), their
\* number, the sectors it fetched and whether a fetch threw the I/O fault.
Read(got, buf, fetched, eio) == [got |-> got, buf |-> buf, fetched |-> fetched, eio |-> eio]

\* The loop of readFile, offset being at the start of a sector.
RECURSIVE ReadLoop(_, _, _, _, _, _)
ReadLoop(d, sector0, fileLength, offset, end, r) ==
  IF offset >= end \/ offset \div SECTOR_SIZE >= fileLength THEN r
  ELSE IF sector0 + offset \div SECTOR_SIZE \notin DOMAIN d.data
    THEN [r EXCEPT !.eio = TRUE]
  ELSE ReadLoop(d, sector0, fileLength, offset + Least(SECTOR_SIZE, end - offset), end,
                Read(r.got + Least(SECTOR_SIZE, end - offset),
                     Append(r.buf,
                            IF Least(SECTOR_SIZE, end - offset) = SECTOR_SIZE
                              THEN d.data[sector0 + offset \div SECTOR_SIZE]
                              ELSE <<d.data[sector0 + offset \div SECTOR_SIZE][1]>>),
                     r.fetched \cup {sector0 + offset \div SECTOR_SIZE}, FALSE))

readFile(d, fs, fd, count, offset) ==
  IF fs[fd + 1].refcnt <= 0 THEN Read(-EINVAL, <<>>, {}, FALSE)
  ELSE ReadLoop(d, fs[fd + 1].dirp.datasec, Slot(d, fs[fd + 1].dirp).len,
                offset, offset + count, Read(0, <<>>, {}, FALSE))

unlink(d, fs, n) ==
  Bind(removeEntry(d, n), LAMBDA r :
  IF ~Ok(r.d) \/ r.err < 0 THEN Out(r.d, fs, r.err, 0, TRUE)
  ELSE Out(r.d, applyMoves(fs, r.out), r.err, 0, TRUE))

\* The history of a slot: the name of the handle that took it at refcnt 0.
Opened(fs, i, n) ==
  IF i > Len(opened) THEN Append(opened, n)
  ELSE IF fs[i].refcnt = 0 THEN [opened EXCEPT ![i] = n]
  ELSE opened

Live(n) == \E i \in 1..Len(files) : files[i].refcnt > 0 /\ opened[i] = n

Served(r, call) ==
  /\ r.within
  /\ segs' = r.d.segs
  /\ hi' = r.d.hi
  /\ fault' = r.d.fault
  /\ disk' = r.d.data
  /\ dirty' = r.d.dirty
  /\ files' = r.fs
  /\ moves' = <<>>
  /\ ret' = r.ret
  /\ cur' = NoPtr
  /\ op' = call
  /\ opened' = IF r.slot = 0 THEN opened ELSE Opened(files, r.slot, call.file)
  /\ UNCHANGED <<mountHi, totalSegs, blocks, dataSource, cacheRet>>

OpenFile(n) ==
  /\ fault = "none"
  /\ Served(openFile(Dir, files, n), Call("open", n, 0))

CreateFile(n) ==
  /\ fault = "none"
  /\ Served(createFile(Dir, files, n), Call("create", n, 0))

CloseFile(fd) ==
  /\ fault = "none"
  /\ fd + 1 \in 1..Len(files)
  /\ Served(closeFile(Dir, files, fd), Call("close", fd, 0))

WriteFile(fd, v, count, offset) ==
  /\ fault = "none"
  /\ fd + 1 \in 1..Len(files)
  /\ Served(writeFile(Dir, files, fd, v, count, offset),
            [name |-> "write", file |-> fd, size |-> offset + count, byte |-> v])

Truncate(fd, newSize) ==
  /\ fault = "none"
  /\ fd + 1 \in 1..Len(files)
  /\ Served(truncateFile(Dir, files, fd, newSize), Call("truncate", fd, newSize))

\* FUSE hides the unlink of a file that is open (Directory.cpp, removeEntry):
\* the table is asked to unlink only names that no handle is open for.
Unlink(n) ==
  /\ fault = "none"
  /\ ~Live(n)
  /\ Served(unlink(Dir, files, n), Call("unlink", n, 0))

Next ==
  \/ \E n \in Names : OpenFile(n)
  \/ \E n \in Names : CreateFile(n)
  \/ \E fd \in 0..(MaxSlots - 1) : CloseFile(fd)
  \/ \E fd \in 0..(MaxSlots - 1), b \in SizeInputs \ {0} : WriteFile(fd, 0, b, 0)
  \/ \E fd \in 0..(MaxSlots - 1), b \in SizeInputs : Truncate(fd, b)
  \/ \E n \in Names : Unlink(n)

\* The table starts on a freshly initialized volume: one free block.  In
\* this specification the data sectors are zeroed and the callers write
\* zeroes: it follows the entries and the handles, not the data.
FreshImages ==
  { x \in OneSegmentImages(DataSectors) : x[1].ent[1].st = "MPTY" /\ x[1].ent[2].st = "EOS" }

InitTable ==
  /\ segs \in FreshImages
  /\ hi = 1
  /\ mountHi = hi
  /\ InitZeroVolume(DataSectors)
  /\ totalSegs = TotalSegments
  /\ InitCommon

Spec == InitTable /\ [][Next]_vars

\* The table with the data: every sector starts with content of its own and
\* the callers write the bytes of Bytes.  The files change length by the
\* writes alone.
InitIO ==
  /\ segs \in FreshImages
  /\ hi = 1
  /\ mountHi = hi
  /\ InitVolume(DataSectors)
  /\ totalSegs = TotalSegments
  /\ InitCommon

NextIO ==
  \/ \E n \in Names : OpenFile(n)
  \/ \E n \in Names : CreateFile(n)
  \/ \E fd \in 0..(MaxSlots - 1) : CloseFile(fd)
  \/ \E fd \in 0..(MaxSlots - 1), v \in Bytes, b \in SizeInputs \ {0} :
       WriteFile(fd, v, b, 0)
  \/ \E n \in Names : Unlink(n)

SpecIO == InitIO /\ [][NextIO]_vars

\* ------------------------------------------------------------------------
\* BlockCache called directly, by borrowers that put back only blocks they
\* hold and write only to blocks they hold
\* ------------------------------------------------------------------------
dirVars == <<segs, hi, fault, files, moves, ret, cur, op, mountHi, opened, disk,
             totalSegs, dirty>>

CacheServed(r, call, arg) ==
  /\ Len(r.c.blocks) <= MaxBlocks
  /\ \A i \in 1..Len(r.c.blocks) : r.c.blocks[i].lent <= MaxRef
  /\ blocks' = r.c.blocks
  /\ dataSource' = r.c.src
  /\ cacheRet' = [name |-> call, err |-> r.err, bp |-> r.bp, arg |-> arg]
  /\ UNCHANGED dirVars

Resident == {blocks[i].id : i \in 1..Len(blocks)}

Held == {blocks[i].id : i \in {k \in 1..Len(blocks) : blocks[k].lent > 0}}

GetBlock(sector, count) ==
  /\ count > 0
  /\ CacheServed(getBlock(Cache, sector, count), "getBlock", 0)

PutBlock(bp) ==
  /\ bp \in Held
  /\ CacheServed(putBlock(Cache, bp), "putBlock", 0)

\* the address passed is that of a block of the cache or of another Block
ResizeBlock(bp, count) ==
  /\ bp \in Resident \cup {NewId(Cache)}
  /\ CacheServed(resizeBlock(Cache, bp, count), "resizeBlock", count)

Sync(junk) ==
  /\ junk \in Values
  /\ CacheServed(SyncFrom(Cache, 1, junk), "sync", 0)

SetByte(bp, k, value) ==
  /\ bp \in Held
  /\ CacheServed(setByte(Cache, Find(Cache, bp), k, value), "setByte", 0)

NextCache ==
  \/ \E sector \in 0..CacheSectors, count \in 1..MaxCount : GetBlock(sector, count)
  \/ \E bp \in 1..MaxBlocks : PutBlock(bp)
  \/ \E bp \in 1..(MaxBlocks + 1), count \in -1..MaxCount : ResizeBlock(bp, count)
  \/ \E junk \in Values : Sync(junk)
  \/ \E bp \in 1..MaxBlocks, k \in 1..MaxCount, value \in Values : SetByte(bp, k, value)

SpecCache == InitTable /\ [][NextCache]_vars

\* ------------------------------------------------------------------------
\* What a scan of the directory sees
\* ------------------------------------------------------------------------
\* The segments on the next_segment chain from segment 1, in order.
RECURSIVE ChainFrom(_, _, _)
ChainFrom(sg, s, fuel) ==
  IF s = 0 \/ fuel = 0 THEN <<>> ELSE <<s>> \o ChainFrom(sg, sg[s].next, fuel - 1)

ChainOf(sg) == ChainFrom(sg, 1, TotalSegments + 1)

Chain == ChainOf(segs)

HasEos(s) == \E i \in 1..maxEntriesPerSegment : segs[s].ent[i].st = "EOS"

\* Number of entries of segment s before its end of segment marker.
Count(s) ==
  IF HasEos(s)
    THEN MinOf({i \in 1..maxEntriesPerSegment : segs[s].ent[i].st = "EOS"}) - 1
    ELSE maxEntriesPerSegment

RECURSIVE SumTo(_, _)
SumTo(s, k) == IF k = 0 THEN 0 ELSE segs[s].ent[k].len + SumTo(s, k - 1)

\* The sector at which the data of the segment after Chain[i] begins.
EndOfSegment(i) ==
  IF i < Len(Chain) THEN segs[Chain[i + 1]].first ELSE VolumeSectors

\* The entries in scan order, end of segment markers left out, each with its
\* position.
RECURSIVE ScanFrom(_, _)
ScanFrom(i, k) ==
  IF i > Len(Chain) THEN <<>>
  ELSE IF k > Count(Chain[i]) THEN ScanFrom(i + 1, 1)
  ELSE <<[seg |-> Chain[i], idx |-> k - 1, e |-> segs[Chain[i]].ent[k]]>>
         \o ScanFrom(i, k + 1)

Scan == ScanFrom(1, 1)

\* C1: after any sequence of directory calls on a valid image the entries
\* of every segment on the chain tile the data region of that segment: their
\* lengths add up to the distance from the segment's first data sector to
\* the first data sector of the next segment, or to the end of the volume.
C1_Partition ==
  fault = "none" =>
    \A i \in 1..Len(Chain) :
      SumTo(Chain[i], Count(Chain[i])) = EndOfSegment(i) - segs[Chain[i]].first

\* a truncate in the second segment of the chain returned, leaving a free
\* block behind the file
C1_Witness ==
  /\ fault = "none" /\ op.name = "truncate" /\ ret = 0
  /\ Len(Chain) = 2 /\ cur.segment = 2 /\ ~Wild(cur)
  /\ Slot(Dir, cur).name = op.file
  /\ Slot(Dir, cur).len = 0
  /\ Slot(Dir, next(Dir, cur)).st = "MPTY"
  /\ Slot(Dir, next(Dir, cur)).len > 0

\* C2: after any sequence of directory calls every segment on the chain is
\* closed by an end of segment marker and every entry before the marker is a
\* tentative file, free space or a permanent file.
C2_EosTerminated ==
  fault = "none" =>
    \A i \in 1..Len(Chain) :
      /\ HasEos(Chain[i])
      /\ \A k \in 1..Count(Chain[i]) :
           segs[Chain[i]].ent[k].st \in {"TENT", "MPTY", "PERM"}

\* createEntry put a new entry into segment 1 and filled it: the end of
\* segment marker is in the last slot
C2_Witness ==
  /\ fault = "none" /\ op.name = "create" /\ ret = 0
  /\ cur.segment = 1 /\ ~Wild(cur)
  /\ Slot(Dir, cur) = Ent("TENT", op.file, 0)
  /\ Count(1) = maxEntriesPerSegment - 1

\* C7: after a directory mutator returns success no two free blocks follow
\* one another in scan order.
C7_NoAdjacentFree ==
  (fault = "none" /\ ret = 0 /\ op.name \in {"truncate", "remove", "create"}) =>
    \A j \in 1..(Len(Scan) - 1) :
      ~(Scan[j].e.st = "MPTY" /\ Scan[j + 1].e.st = "MPTY")

\* C8: no directory operation moves entries past the capacity of a segment:
\* the bounds assertions of moveEntriesWithinSegment hold.
C8_NoOverflow ==
  fault \notin {"assert_count", "assert_src_bounds", "assert_dst_bounds"}

\* C9: the highest_segment word of segment 1 is the number of segments on
\* the chain; allocateNewSegment adds one to both, and once highest_segment
\* is total_segments it returns ENOSPC and changes nothing.
C9_HighestIsChainLength ==
  /\ hi = Len(Chain)
  /\ fault = "none" =>
       LET r == allocateNewSegment(Dir) IN
         IF hi + 1 > totalSegs
           THEN r.err = -ENOSPC /\ r.d = Dir
           ELSE /\ r.err = 0
                /\ r.d.hi = hi + 1
                /\ Len(ChainOf(r.d.segs)) = Len(Chain) + 1

\* a call allocated a segment the image did not have in use
C9_Witness ==
  /\ mountHi = 1
  /\ hi = 2
  /\ Chain = <<1, 2>>

\* Position (segment, index) of the file named n, or <<0, 0>>.
Pos(d, n) ==
  LET p == getDirPointerS(d, n) IN
  IF afterEnd(p) \/ Wild(p) THEN <<0, 0>> ELSE <<p.segment, p.index>>

Records(mv, a) == {i \in 1..Len(mv) : <<mv[i].os, mv[i].oi>> = a}

C6_CreateMoves ==
  [][(op'.name = "create" /\ ret' = 0 /\ fault' = "none") =>
       \A n \in Names :
         (Pos(Dir, n) # <<0, 0>> /\ Pos(Dir', n) # Pos(Dir, n)) =>
           \E i \in Records(moves', Pos(Dir, n)) :
             <<moves'[i].ns, moves'[i].ni>> = Pos(Dir', n)
    ]_vars

DataSector(p) == segs[p.base].first + SumTo(p.base, p.index)

LiveSlots == {i \in 1..Len(files) : files[i].refcnt > 0}

\* C3: whatever calls the table has served (unlink never being asked of a
\* file that is open), the cursor of every live slot designates an entry of
\* a file, and that file bears the name the slot was opened for.
C3_HandleDesignatesFile ==
  fault = "none" =>
    \A i \in LiveSlots :
      /\ ~Wild(files[i].dirp)
      /\ files[i].dirp.segment \in Segs
      /\ Slot(Dir, files[i].dirp).st \in {"TENT", "PERM"}
      /\ Slot(Dir, files[i].dirp).name = opened[i]

\* C4: after each call of the table the data sector cached in the cursor of
\* every live slot is the first data sector of the cursor's segment plus the
\* lengths of the entries before the cursor's index in that segment.
C4_CachedDataSector ==
  fault = "none" =>
    \A i \in LiveSlots :
      ~Wild(files[i].dirp) /\ files[i].dirp.base \in Segs
        => files[i].dirp.datasec = DataSector(files[i].dirp)

\* ------------------------------------------------------------------------
\* File content
\* ------------------------------------------------------------------------
\* What sector s of the volume holds; -1 for a sector the volume lacks.
SectorOf(d, s) == IF s \in DOMAIN d.data THEN d.data[s] ELSE <<-1, -1>>

\* The content of the file named n, sector by sector; <<>> without the file.
FileData(d, n) ==
  LET p == getDirPointerS(d, n) IN
  IF afterEnd(p) \/ Wild(p) THEN <<>>
  ELSE [i \in 1..Slot(d, p).len |-> SectorOf(d, p.datasec + i - 1)]

FileRec(d, n) ==
  LET p == getDirPointerS(d, n) IN
  IF afterEnd(p) \/ Wild(p) THEN <<>>
  ELSE <<Slot(d, p).name, Slot(d, p).st, Slot(d, p).len, p.datasec, FileData(d, n)>>

AssertFaults ==
  {"assert_same_segment", "assert_count", "assert_src_bounds", "assert_dst_bounds"}

\* C12: a truncate, createEntry or removeEntry of one file comes back, also
\* when it has to spill an entry into the next segment, and leaves name,
\* status, length, first data sector and content of every other file as
\* they were.
C12_OthersUntouched ==
  [][(op'.name \in {"truncate", "create", "remove"} /\ fault = "none") =>
       /\ fault' \notin AssertFaults
       /\ fault' = "none" =>
            \A n \in Names \ {op'.file} :
              Pos(Dir, n) # <<0, 0>> => FileRec(Dir', n) = FileRec(Dir, n)
    ]_vars

\* C13: a truncate that returns ENOSPC leaves the directory and the data
\* as they were and hands back no move.
C13_EnospcNoChange ==
  [][(op'.name = "truncate" /\ ret' = -ENOSPC /\ fault' = "none") =>
       /\ segs' = segs /\ hi' = hi /\ disk' = disk
       /\ moves' = <<>>
    ]_vars

\* a truncate to fewer sectors came back with ENOSPC: the segment is full
\* and the directory has no segment left to allocate
C13_Witness ==
  /\ op.name = "truncate" /\ ret = -ENOSPC /\ fault = "none"
  /\ Pos(Dir, op.file) # <<0, 0>>
  /\ Sectors(op.size) < Slot(Dir, getDirPointerS(Dir, op.file)).len
  /\ hi = totalSegs

\* C14: a truncate to a size in bytes that rounds up to the length the
\* entry has returns 0, changes no entry and no data sector, marks no block
\* dirty and hands back no move.
C14_SameSizeNoOp ==
  [][(/\ op'.name = "truncate" /\ fault = "none"
      /\ Pos(Dir, op'.file) # <<0, 0>>
      /\ Sectors(op'.size) = Slot(Dir, getDirPointerS(Dir, op'.file)).len) =>
       /\ ret' = 0 /\ fault' = "none"
       /\ segs' = segs /\ hi' = hi /\ disk' = disk
       /\ dirty' = dirty
       /\ moves' = <<>>
    ]_vars

\* a file of one sector was truncated to one byte while no block was dirty
C14_Witness ==
  /\ op.name = "truncate" /\ op.size = 1 /\ ret = 0 /\ fault = "none"
  /\ Pos(Dir, op.file) # <<0, 0>>
  /\ Slot(Dir, getDirPointerS(Dir, op.file)).len = 1
  /\ ~dirty

\* ------------------------------------------------------------------------
\* The entries of a directory value in scan order
\* ------------------------------------------------------------------------
CountIn(sg, s) ==
  IF \E i \in 1..maxEntriesPerSegment : sg[s].ent[i].st = "EOS"
    THEN MinOf({i \in 1..maxEntriesPerSegment : sg[s].ent[i].st = "EOS"}) - 1
    ELSE maxEntriesPerSegment

RECURSIVE EntriesFrom(_, _, _)
EntriesFrom(sg, i, k) ==
  IF i > Len(ChainOf(sg)) THEN <<>>
  ELSE IF k > CountIn(sg, ChainOf(sg)[i]) THEN EntriesFrom(sg, i + 1, 1)
  ELSE <<sg[ChainOf(sg)[i]].ent[k]>> \o EntriesFrom(sg, i, k + 1)

EntriesOf(d) == EntriesFrom(d.segs, 1, 1)

RECURSIVE FreeLen(_)
FreeLen(es) ==
  IF es = <<>> THEN 0
  ELSE (IF Head(es).st = "MPTY" THEN Head(es).len ELSE 0) + FreeLen(Tail(es))

\* createEntry of a name followed by removeEntry of it both came back with 0
CreatedAndRemoved(x) ==
  /\ Ok(createEntry(Dir, x).d) /\ createEntry(Dir, x).err = 0
  /\ Ok(removeEntry(createEntry(Dir, x).d, x).d)
  /\ removeEntry(createEntry(Dir, x).d, x).err = 0

\* C15: on any directory the calls have led to, creating a file under a
\* name that is not there and removing it again leaves the free sectors in
\* total, every other file, and the sequence of files and free blocks as
\* they were: no free block is left over.
C15_CreateUnlink ==
  fault = "none" =>
    \A x \in Names :
      (~Exists(Dir, x) /\ CreatedAndRemoved(x)) =>
        LET after == removeEntry(createEntry(Dir, x).d, x).d IN
          /\ FreeLen(EntriesOf(after)) = FreeLen(EntriesOf(Dir))
          /\ \A n \in Names \ {x} : FileRec(after, n) = FileRec(Dir, n)
          /\ EntriesOf(after) = EntriesOf(Dir)

\* ------------------------------------------------------------------------
\* BlockCache
\* ------------------------------------------------------------------------
Covers(b, s) == s >= b.sector /\ s < b.sector + b.count

\* the range of count sectors from sector shares a sector with block b
Overlaps(b, sector, count) == sector < b.sector + b.count /\ b.sector < sector + count

Requests == (0..CacheSectors) \X (1..MaxCount)

\* C16: whatever calls the cache has served, no two resident blocks cover a
\* common sector, and a getBlock for a range that shares a sector with a
\* resident block without starting where a resident block starts fails with
\* EINVAL, whatever the count.
C16_NoOverlap ==
  /\ \A i \in 1..Len(blocks), j \in 1..Len(blocks) :
       i # j => ~Overlaps(blocks[i], blocks[j].sector, blocks[j].count)
  /\ \A q \in Requests :
       (/\ \E i \in 1..Len(blocks) : Overlaps(blocks[i], q[1], q[2])
        /\ \A i \in 1..Len(blocks) : blocks[i].sector # q[1])
         => getBlock(Cache, q[1], q[2]).err = -EINVAL

\* The sectors of the data source src under block b hold what its buffer
\* holds.
OnDisk(b, src) ==
  /\ Len(b.data) = b.count
  /\ \A k \in 1..b.count : src[b.sector + k - 1] = b.data[k]

\* C17: when sync has returned without error no resident block is dirty
\* and the data source holds, in the sectors of every resident block, what
\* the block's buffer holds; sync writes only blocks that were dirty: the
\* sectors that no dirty block covered hold what they held before.
C17_SyncWritesDirty ==
  [][(cacheRet'.name = "sync" /\ cacheRet'.err = 0) =>
       /\ \A i \in 1..Len(blocks') : ~blocks'[i].dirty /\ OnDisk(blocks'[i], dataSource')
       /\ \A s \in SourceSectors :
            (\A i \in 1..Len(blocks) : blocks[i].dirty => ~Covers(blocks[i], s))
              => dataSource'[s] = dataSource[s]
    ]_vars

\* C18: the reference count of every resident block is the number of
\* getBlock calls that returned it less the number of putBlock calls on it,
\* so with borrowers that put back only what they hold it is never
\* negative.
C18_RefcountIsBorrows ==
  \A i \in 1..Len(blocks) :
    /\ blocks[i].refcount = blocks[i].lent
    /\ blocks[i].refcount >= 0

\* C19: a getBlock for a sector at which a resident block starts, with
\* another count, fails with EINVAL, and a getBlock for a range that no
\* resident block shares a sector with and that the data source cannot
\* read fails with EIO; either way the resident blocks and their reference
\* counts stay as they are.
C19_FailedGet ==
  \A q \in Requests :
    LET r == getBlock(Cache, q[1], q[2]) IN
      /\ (\E i \in 1..Len(blocks) : blocks[i].sector = q[1] /\ blocks[i].count # q[2])
           => r.err = -EINVAL /\ r.c = Cache
      /\ (/\ \A i \in 1..Len(blocks) : ~Overlaps(blocks[i], q[1], q[2])
          /\ ~InSource(q[1], q[2]))
           => r.err = -EIO /\ r.c = Cache

Addresses == 1..(MaxBlocks + 1)

Counts == -1..MaxCount

\* the range of newCount sectors from the start of the block at list
\* position i passes the start of a resident block that starts after it
PastNextBlock(i, newCount) ==
  \E j \in 1..Len(blocks) :
    /\ blocks[j].sector > blocks[i].sector
    /\ blocks[i].sector + newCount > blocks[j].sector

\* the same for the block that follows in the list
PastNextInList(i, newCount) ==
  i < Len(blocks) /\ blocks[i].sector + newCount > blocks[i + 1].sector

\* the sectors a block at list position i would gain cannot be read
TailUnreadable(i, newCount) ==
  /\ newCount > blocks[i].count
  /\ ~InSource(blocks[i].sector + blocks[i].count, newCount - blocks[i].count)

\* the call left every block but the one at list position i as it was and
\* gave that one newCount sectors and a buffer of as many
Resized(r, i, newCount) ==
  /\ r.err = 0
  /\ Len(r.c.blocks) = Len(blocks)
  /\ \A j \in 1..Len(blocks) : j # i => r.c.blocks[j] = blocks[j]
  /\ r.c.blocks[i].count = newCount
  /\ Len(r.c.blocks[i].data) = newCount
  /\ r.c.blocks[i].sector = blocks[i].sector

C21_ResizeRestores ==
  \A bp \in Addresses, n \in Counts :
    (/\ n > 0 /\ Find(Cache, bp) # 0
     /\ ~PastNextInList(Find(Cache, bp), n)
     /\ TailUnreadable(Find(Cache, bp), n)) =>
      /\ resizeBlock(Cache, bp, n).err = -EIO
      /\ resizeBlock(Cache, bp, n).c.blocks[Find(Cache, bp)].count
           = blocks[Find(Cache, bp)].count
      /\ resizeBlock(Cache, bp, n).c.blocks[Find(Cache, bp)].data
           = blocks[Find(Cache, bp)].data

\* ------------------------------------------------------------------------
\* OpenFileTable::applyMoves
\* ------------------------------------------------------------------------
\* The moves whose old position is the position of cursor p.
MovesFrom(mv, p) == {k \in 1..Len(mv) : mv[k].os = p.segment /\ mv[k].oi = p.index}

\* Table post is table pre with the moves mv applied as stated: a live slot
\* at the old position of a move is at that move's new position, a slot at
\* no move's old position is as it was.
MovesApplied(pre, mv, post) ==
  /\ Len(post) = Len(pre)
  /\ \A i \in 1..Len(pre) :
       IF MovesFrom(mv, pre[i].dirp) = {} THEN post[i] = pre[i]
       ELSE pre[i].refcnt > 0 =>
              \E k \in MovesFrom(mv, pre[i].dirp) :
                /\ post[i].dirp.segment = mv[k].ns
                /\ post[i].dirp.index = mv[k].ni
                /\ post[i].refcnt = pre[i].refcnt

\* A stretch of a segment in which files follow one another.
FilesInARow ==
  [Dir EXCEPT !.segs[1].ent = [i \in 1..maxEntriesPerSegment |-> Ent("PERM", i, 0)]]

At(index) == Ptr(1, 1, index, FirstDataSector)

\* What moveEntriesWithinSegment logs when it moves count files from index
\* src to index dst.
ShiftLog(src, dst, count) ==
  getMoves(endTransaction(
    LogMoves(FilesInARow, beginTransaction(FilesInARow), At(src), At(dst), count)))

\* The logs of insertEmptyAt (one slot up) and deleteEmptyAt (one slot down).
MoveLists ==
  { ShiftLog(i, i + 1, c) : i \in 0..(maxEntriesPerSegment - 2),
                            c \in 1..(maxEntriesPerSegment - 1) }
  \cup { ShiftLog(i + 1, i, c) : i \in 0..(maxEntriesPerSegment - 2),
                                 c \in 1..(maxEntriesPerSegment - 1) }

\* Tables of open files: open gives no two slots the same position; a slot
\* with no reference keeps the cursor it had.
Tables ==
  { t \in UNION { [1..n -> [refcnt : 0..1,
                            dirp : {At(i) : i \in 0..(maxEntriesPerSegment - 1)}]] :
                  n \in 1..MaxSlots } :
      \A i \in 1..Len(t), j \in 1..Len(t) : i # j => ~SamePlace(t[i].dirp, t[j].dirp) }

InitMoves ==
  /\ segs \in FreshImages
  /\ hi = 1
  /\ mountHi = hi
  /\ InitZeroVolume(DataSectors)
  /\ totalSegs = TotalSegments
  /\ fault = "none"
  /\ dirty = FALSE
  /\ InitBlockCache
  /\ files \in Tables
  /\ opened = <<>>
  /\ moves \in MoveLists
  /\ ret = 0
  /\ cur = NoPtr
  /\ op = [name |-> "mount"]

ApplyMoves ==
  /\ op.name = "mount"
  /\ files' = applyMoves(files, moves)
  /\ op' = [name |-> "applyMoves"]
  /\ UNCHANGED <<segs, hi, fault, moves, ret, cur, mountHi, opened, disk,
                 totalSegs, dirty, blocks, dataSource, cacheRet>>

SpecMoves == InitMoves /\ [][ApplyMoves]_vars

\* C22: after applyMoves every live slot whose cursor was at the old
\* position of a move is at that move's new position and every slot at no
\* move's old position is unchanged, also when the new position of one move
\* is the old position of another (a shift of several files by one slot) and
\* when closed slots hold stale cursors.
C22_ApplyMoves ==
  [][op'.name = "applyMoves" => MovesApplied(files, moves, files')]_vars

\* The live slots of the table whose cursor is at the position of cursor p.
LiveAt(p) == {i \in LiveSlots : SamePlace(files[i].dirp, p)}

\* C23: when openFile of a name that is in the directory returns a slot,
\* that slot is one that was live with its cursor at the entry, and its
\* reference count has gone up by one, if there was such a slot; otherwise
\* it is a slot that had no reference, or a new one, its reference count is
\* exactly 1 and its cursor (segment, index, data sector) is the cursor the
\* name was just looked up to.
C23_Open ==
  [][(op'.name = "open" /\ fault' = "none" /\ ret' >= 0) =>
       LET p  == getDirPointerS(Dir, op'.file)
           fd == ret' + 1
       IN /\ fd \in 1..Len(files')
          /\ Len(files') >= Len(files)
          /\ \A i \in 1..Len(files) : i # fd => files'[i] = files[i]
          /\ IF LiveAt(p) # {}
               THEN /\ fd \in LiveAt(p)
                    /\ files'[fd] = [files[fd] EXCEPT !.refcnt = @ + 1]
               ELSE /\ fd <= Len(files) => files[fd].refcnt = 0
                    /\ files'[fd].refcnt = 1
                    /\ files'[fd].dirp = p
    ]_vars

RECURSIVE SumRefs(_)
SumRefs(fs) == IF fs = <<>> THEN 0 ELSE Head(fs).refcnt + SumRefs(Tail(fs))

\* The table on a directory that has one segment and room for no other.
InitOneSegment ==
  /\ segs \in FreshImages
  /\ hi = 1
  /\ mountHi = hi
  /\ InitZeroVolume(DataSectors)
  /\ totalSegs = 1
  /\ InitCommon

SpecOneSegment == InitOneSegment /\ [][Next]_vars

\* C24: the handles given out by successful open and create calls and not
\* yet closed are as many as the reference counts of the slots add up to:
\* a call of open or create that returns a handle adds one to the sum, a
\* close that returns 0 takes one off, and every other call of the table,
\* those that return an error included, leaves the sum as it is.
C24_HandleCount ==
  [][fault' = "none" =>
       SumRefs(files') - SumRefs(files) =
         IF op'.name \in {"open", "create"} /\ ret' >= 0 THEN 1
         ELSE IF op'.name = "close" /\ ret' = 0 THEN -1
         ELSE 0
    ]_vars

\* Status of the entry of the file named n; "NONE" without the file.
StatusOf(d, n) ==
  IF Pos(d, n) = <<0, 0>> THEN "NONE" ELSE Slot(d, getDirPointerS(d, n)).st

\* The references held by the slots that were opened for the name n.
RECURSIVE HandlesFrom(_, _)
HandlesFrom(i, n) ==
  IF i > Len(files) THEN 0
  ELSE (IF opened[i] = n THEN files[i].refcnt ELSE 0) + HandlesFrom(i + 1, n)

HandlesOf(n) == HandlesFrom(1, n)

\* C25: the entry create makes for a new file is tentative; the entry of a
\* tentative file with a handle open stays tentative through every call of
\* the table but the close that gives back its last handle, and when that
\* close returns the entry is permanent, the status of every other file is
\* what it was and the cache has been synced: no block is dirty.
C25_TentUntilLastClose ==
  [][fault' = "none" =>
       /\ (op'.name = "create" /\ ret' >= 0 /\ ~Exists(Dir, op'.file)) =>
            StatusOf(Dir', op'.file) = "TENT"
       /\ \A n \in Names :
            (StatusOf(Dir, n) = "TENT" /\ HandlesOf(n) > 0) =>
              IF /\ op'.name = "close" /\ ret' = 0
                 /\ opened[op'.file + 1] = n /\ HandlesOf(n) = 1
                THEN /\ StatusOf(Dir', n) = "PERM"
                     /\ \A m \in Names \ {n} : StatusOf(Dir', m) = StatusOf(Dir, m)
                     /\ ~dirty'
                ELSE StatusOf(Dir', n) = "TENT"
    ]_vars

\* The entries of a file (tentative or permanent) that bear the name n.
Bearers(d, n) ==
  LET es == EntriesOf(d) IN
  {i \in 1..Len(es) : es[i].st \in {"TENT", "PERM"} /\ es[i].name = n}

\* C26: whatever calls the table has served, no two entries of a file bear
\* the same name; and a create of a name that a file bears, when it returns
\* a handle, returns a live slot whose cursor is at the entry of that file,
\* leaves the file with length 0 and the free blocks longer in total by the
\* sectors the file had.
C26_CreateExisting ==
  [][fault' = "none" =>
       /\ \A n \in Names : Cardinality(Bearers(Dir', n)) <= 1
       /\ (op'.name = "create" /\ ret' >= 0 /\ Exists(Dir, op'.file)) =>
            /\ ret' + 1 \in 1..Len(files')
            /\ files'[ret' + 1].refcnt > 0
            /\ <<files'[ret' + 1].dirp.segment, files'[ret' + 1].dirp.index>>
                 = Pos(Dir', op'.file)
            /\ Pos(Dir', op'.file) = Pos(Dir, op'.file)
            /\ Slot(Dir', getDirPointerS(Dir', op'.file)).len = 0
            /\ Slot(Dir', getDirPointerS(Dir', op'.file)).st
                 = Slot(Dir, getDirPointerS(Dir, op'.file)).st
            /\ FreeLen(EntriesOf(Dir')) =
                 FreeLen(EntriesOf(Dir)) + Slot(Dir, getDirPointerS(Dir, op'.file)).len
    ]_vars

\* create has returned a handle to a permanent file, which a new file is
\* not, and left it empty in front of a free block, with blocks to write
C26_Witness ==
  /\ fault = "none" /\ op.name = "create" /\ ret >= 0
  /\ StatusOf(Dir, op.file) = "PERM"
  /\ Slot(Dir, getDirPointerS(Dir, op.file)).len = 0
  /\ hasStatus(Dir, next(Dir, getDirPointerS(Dir, op.file)), "MPTY")
  /\ Slot(Dir, next(Dir, getDirPointerS(Dir, op.file))).len > 0
  /\ dirty

\* C27: on any directory the calls have led to, a rename to the name of
\* another file leaves at most one file (tentative or permanent) bearing
\* that name, whether it unlinked the other file or refused; and a rename
\* of a name that is not there returns ENOENT and changes nothing.
C27_Rename ==
  fault = "none" =>
    \A o \in Names, n \in Names :
      /\ ~Exists(Dir, o) =>
           /\ rename(Dir, o, n).err = -ENOENT
           /\ rename(Dir, o, n).d.segs = segs
           /\ rename(Dir, o, n).d.data = disk
      /\ (o # n /\ Exists(Dir, o) /\ Exists(Dir, n)) =>
           /\ Ok(rename(Dir, o, n).d)
           /\ Cardinality(Bearers(rename(Dir, o, n).d, n)) <= 1

\* count bytes, each of them v, as readFile lays them out sector by sector.
Written(v, count) ==
  [k \in 1..Sectors(count) |-> IF k * SECTOR_SIZE <= count THEN <<v, v>> ELSE <<v>>]

\* C28: when a write of count bytes at offset 0 through a handle has
\* returned count, a read of count bytes at offset 0 through the same handle
\* returns those bytes, also when the write extended the file and the file
\* moved to another free block, and every other file holds what it held.
C28_WriteThenRead ==
  [][(op'.name = "write" /\ fault' = "none" /\ ret' = op'.size) =>
       /\ readFile(Dir', files', op'.file, op'.size, 0)
            = Read(op'.size, Written(op'.byte, op'.size),
                   readFile(Dir', files', op'.file, op'.size, 0).fetched, FALSE)
       /\ \A n \in Names \ {opened[op'.file + 1]} :
            FileData(Dir', n) = FileData(Dir, n)
    ]_vars

Most(a, b) == IF a > b THEN a ELSE b

\* The offsets of a read: the starts of the sectors of a file and the one
\* after them.
Offsets == {k * SECTOR_SIZE : k \in 0..MaxSize}

\* C29: a read of count bytes at an offset through a live handle returns
\* min(count, max(0, length * 512 - offset)) bytes, length being the
\* length of the handle's file, and fetches sectors of that file only: none
\* before its first data sector and none at or past its length.
C29_Read ==
  fault = "none" =>
    \A i \in LiveSlots, count \in SizeInputs, offset \in Offsets :
      Pos(Dir, opened[i]) # <<0, 0>> =>
        LET r   == readFile(Dir, files, i - 1, count, offset)
            p   == getDirPointerS(Dir, opened[i])
            len == Slot(Dir, p).len
        IN /\ ~r.eio
           /\ r.got = Least(count, Most(0, len * SECTOR_SIZE - offset))
           /\ r.fetched \subseteq p.datasec..(p.datasec + len - 1)

\* ------------------------------------------------------------------------
\* Directory::statfs
\* ------------------------------------------------------------------------
Tally(usedinodes, usedblocks, freeblocks) ==
  [usedinodes |-> usedinodes, usedblocks |-> usedblocks, freeblocks |-> freeblocks]

\* while (++ptr): free space adds its length to the free blocks; any other
\* entry adds its length to the used blocks and, unless it is an end of
\* segment marker, one to the used inodes.
RECURSIVE StatLoop(_, _, _)
StatLoop(d, p, t) ==
  Bind(increment(d, p), LAMBDA q :
    IF afterEnd(q) \/ Wild(q) THEN t
    ELSE IF Slot(d, q).st = "MPTY"
      THEN StatLoop(d, q, [t EXCEPT !.freeblocks = @ + Slot(d, q).len])
    ELSE IF Slot(d, q).st # "EOS"
      THEN StatLoop(d, q, [t EXCEPT !.usedblocks = @ + Slot(d, q).len,
                                    !.usedinodes = @ + 1])
    ELSE StatLoop(d, q, [t EXCEPT !.usedblocks = @ + Slot(d, q).len]))

\* -1 because the end of segment marker needs a slot of its own
perseg == (SECTORS_PER_SEGMENT * SECTOR_SIZE - FIRST_ENTRY_OFFSET) \div (ENTRY_LENGTH + ExtraBytes) - 1

StatVfs(d, inodes, t) ==
  [f_bsize |-> SECTOR_SIZE, f_frsize |-> SECTOR_SIZE, f_namemax |-> 10,
   f_blocks |-> FirstDataSector + Cardinality(DOMAIN d.data)
                  - (FIRST_SEGMENT_SECTOR + d.total * SECTORS_PER_SEGMENT),
   f_bfree |-> t.freeblocks, f_bavail |-> t.freeblocks,
   f_files |-> inodes, f_ffree |-> inodes - t.usedinodes,
   f_favail |-> inodes - t.usedinodes]

statfs_AllFree(d) == StatVfs(d, perseg * d.total, Tally(0, 0, 0))

statfs(d) == StatVfs(d, perseg * d.total, StatLoop(d, startScan(d), Tally(0, 0, 0)))

\* The entries of the directory that bear a file, tentative or permanent.
FileEntries(d) ==
  LET es == EntriesOf(d) IN {i \in 1..Len(es) : es[i].st \in {"TENT", "PERM"}}

\* C30 (as stated): statfs counts every entry that is not an end of segment
\* marker, free space included, as a used inode: f_ffree is f_files less the
\* number of such entries, and f_files is total_segments * ((1024 - 10) /
\* entry_size - 1).
C30_StatfsEveryEntry ==
  fault = "none" =>
    /\ statfs(Dir).f_files = totalSegs * ((1024 - 10) \div entrySize - 1)
    /\ statfs(Dir).f_ffree = statfs(Dir).f_files - Len(EntriesOf(Dir))

\* C30 (amended): statfs counts the entries that bear a file (TENT and PERM)
\* as used inodes and leaves free space (MPTY) and end of segment markers
\* out: f_ffree is f_files less the number of TENT and PERM entries, f_files
\* is total_segments * ((1024 - 10) / entry_size - 1), and the free blocks
\* are the lengths of the MPTY entries summed.
C30_Statfs ==
  fault = "none" =>
    /\ statfs(Dir).f_files = totalSegs * ((1024 - 10) \div entrySize - 1)
    /\ statfs(Dir).f_ffree = statfs(Dir).f_files - Cardinality(FileEntries(Dir))
    /\ statfs(Dir).f_favail = statfs(Dir).f_ffree
    /\ statfs(Dir).f_bfree = FreeLen(EntriesOf(Dir))

\* A directory that holds free space next to a tentative and a permanent
\* file after a create: statfs reports two used inodes for three entries.
C30_Witness ==
  /\ fault = "none"
  /\ op.name = "create"
  /\ \E i, j, k \in 1..Len(EntriesOf(Dir)) :
       /\ EntriesOf(Dir)[i].st = "MPTY"
       /\ EntriesOf(Dir)[j].st = "TENT"
       /\ EntriesOf(Dir)[k].st = "PERM"
  /\ statfs(Dir).f_ffree = statfs(Dir).f_files - 2

\* ------------------------------------------------------------------------
\* statfs across directory calls
\* ------------------------------------------------------------------------
RECURSIVE UsedLen(_)
UsedLen(es) ==
  IF es = <<>> THEN 0
  ELSE (IF Head(es).st \in {"TENT", "PERM"} THEN Head(es).len ELSE 0)
         + UsedLen(Tail(es))

\* f_bfree of a directory block plus the lengths of its files.
BlocksOf(sg, h, dk, t) ==
  LET d == [segs |-> sg, hi |-> h, tx |-> -1, mv |-> <<>>, fault |-> "none",
            data |-> dk, total |-> t, dirty |-> FALSE]
  IN statfs(d).f_bfree + UsedLen(EntriesOf(d))

\* C31: statfs reports the MPTY lengths summed as f_bfree and f_bavail, and
\* f_files less the number of entries that are neither MPTY nor EOS as
\* f_ffree and f_favail; and no create, truncate or remove that returns
\* changes f_bfree plus the lengths of all files.
C31_StatfsConserved ==
  /\ [](fault = "none" =>
          /\ statfs(Dir).f_bfree = FreeLen(EntriesOf(Dir))
          /\ statfs(Dir).f_bavail = FreeLen(EntriesOf(Dir))
          /\ statfs(Dir).f_ffree =
               statfs(Dir).f_files
                 - Cardinality({i \in 1..Len(EntriesOf(Dir)) :
                                  EntriesOf(Dir)[i].st \notin {"MPTY", "EOS"}})
          /\ statfs(Dir).f_favail = statfs(Dir).f_ffree)
  /\ [][(fault = "none" /\ fault' = "none") =>
          BlocksOf(segs', hi', disk', totalSegs') = BlocksOf(segs, hi, disk, totalSegs)]_vars

\* A truncate has returned 0 and left a file of some sectors beside free
\* space: both terms of the sum are positive.
C31_Witness ==
  /\ fault = "none"
  /\ op.name = "truncate"
  /\ ret = 0
  /\ UsedLen(EntriesOf(Dir)) > 0
  /\ statfs(Dir).f_bfree > 0

\* ------------------------------------------------------------------------
\* Rad50
\* ------------------------------------------------------------------------
charset ==
  <<" ", "A", "B", "C", "D", "E", "F", "G", "H", "I", "J", "K", "L", "M",
    "N", "O", "P", "Q", "R", "S", "T", "U", "V", "W", "X", "Y", "Z", "$",
    ".", "%", "0", "1", "2", "3", "4", "5", "6", "7", "8", "9">>

BASE == 40

npos == -1

\* charset.find(ch): the position of the character, counted from 0
find(ch) ==
  IF \E i \in 1..Len(charset) : charset[i] = ch
    THEN (CHOOSE i \in 1..Len(charset) : charset[i] = ch) - 1
    ELSE npos

\* charset.substr(pos, 1): empty when pos is the size of the string
substr(pos) == IF pos < Len(charset) THEN <<charset[pos + 1]>> ELSE <<>>

fromRad50(rad50) ==
  substr(rad50 \div (BASE * BASE)) \o substr((rad50 \div BASE) % BASE)
    \o substr(rad50 % BASE)

\* for (auto ch : str): the word so far times BASE plus the index, in 16 bits
RECURSIVE Pack(_, _, _)
Pack(str, result, out) ==
  IF str = <<>> THEN [ok |-> TRUE, out |-> result]
  ELSE IF find(Head(str)) = npos THEN [ok |-> FALSE, out |-> out]
  ELSE Pack(Tail(str), (result * BASE + find(Head(str))) % WORD, out)

\* (variant) without the test of the length
toRad50_AnyLength(str, out) == Pack(str, 0, out)

toRad50(str, out) ==
  IF Len(str) # 3 THEN [ok |-> FALSE, out |-> out] ELSE Pack(str, 0, out)

\* Strings handed to toRad50: up to MaxStr characters, some of them outside
\* the alphabet; words handed to fromRad50: every 16-bit word.
CharInputs == {" ", "A", "Z", "$", "9", "a", "*"}

StrInputs == UNION {[1..n -> CharInputs] : n \in 0..MaxStr}

WordInputs == 0..(WORD - 1)

InitUnmounted ==
  /\ segs = <<>>
  /\ hi = 0
  /\ mountHi = 0
  /\ disk = <<>>
  /\ totalSegs = 0
  /\ fault = "none"
  /\ dirty = FALSE
  /\ InitBlockCache
  /\ files = <<>>
  /\ opened = <<>>
  /\ moves = <<>>
  /\ cur = NoPtr

\* op: the last call, the string and the word it took or gave, whether it
\* succeeded, the input the chain of calls began with and its length.
Rad50Call(name, str, word, ok, first, step) ==
  [name |-> name, str |-> str, word |-> word, ok |-> ok, first |-> first,
   step |-> step]

InitRad50 ==
  /\ InitUnmounted
  /\ ret = 0
  /\ op \in {Rad50Call("str", s, 0, TRUE, s, 0) : s \in StrInputs}
         \cup {Rad50Call("word", <<>>, w, TRUE, w, 0) : w \in WordInputs}

ToRad50 ==
  /\ op.name \in {"str", "fromRad50"}
  /\ op.step < 3
  /\ op' = Rad50Call("toRad50", op.str, toRad50(op.str, op.word).out,
                     toRad50(op.str, op.word).ok, op.first, op.step + 1)
  /\ UNCHANGED <<segs, hi, fault, files, moves, ret, cur, mountHi, opened,
                 disk, totalSegs, dirty, blocks, dataSource, cacheRet>>

FromRad50 ==
  /\ op.name \in {"word", "toRad50"}
  /\ op.ok
  /\ op.step < 3
  /\ op' = Rad50Call("fromRad50", fromRad50(op.word), op.word, TRUE, op.first,
                     op.step + 1)
  /\ UNCHANGED <<segs, hi, fault, files, moves, ret, cur, mountHi, opened,
                 disk, totalSegs, dirty, blocks, dataSource, cacheRet>>

NextRad50 == ToRad50 \/ FromRad50

SpecRad50 == InitRad50 /\ [][NextRad50]_vars

\* The Rad50 alphabet: space, A-Z, $, ., %, 0-9.
Rad50Alphabet ==
  {" ", "$", ".", "%"}
    \cup {"A", "B", "C", "D", "E", "F", "G", "H", "I", "J", "K", "L", "M",
          "N", "O", "P", "Q", "R", "S", "T", "U", "V", "W", "X", "Y", "Z"}
    \cup {"0", "1", "2", "3", "4", "5", "6", "7", "8", "9"}

InAlphabet(str) == \A i \in 1..Len(str) : str[i] \in Rad50Alphabet

\* C32: toRad50 succeeds on exactly the strings of 3 characters of the
\* alphabet, with a 16-bit word that fromRad50 turns back into the string;
\* for every word w < 40^3, toRad50 of fromRad50(w) succeeds with w (and
\* fromRad50 of that gives the same string again); on a string of another
\* length or with a character outside the alphabet toRad50 fails.
C32_Rad50RoundTrip ==
  /\ (op.name = "toRad50" /\ op.step = 1) =>
        /\ op.ok <=> (Len(op.str) = 3 /\ InAlphabet(op.str))
        /\ op.ok => op.word \in 0..(40 * 40 * 40 - 1)
  /\ (op.name = "fromRad50" /\ op.step = 2) => op.str = op.first
  /\ (op.name = "fromRad50" /\ op.step = 1 /\ op.first < 40 * 40 * 40) =>
        (Len(op.str) = 3 /\ InAlphabet(op.str))
  /\ (op.name = "toRad50" /\ op.step = 2 /\ op.first < 40 * 40 * 40) =>
        (op.ok /\ op.word = op.first)
  /\ (op.name = "fromRad50" /\ op.step = 3 /\ op.first < 40 * 40 * 40) =>
        op.str = fromRad50(op.first)

\* "Z9$" has been packed and unpacked again.
C32_Witness ==
  /\ op.name = "fromRad50"
  /\ op.step = 2
  /\ op.first = <<"Z", "9", "$">>
  /\ op.str = <<"Z", "9", "$">>
  /\ op.word = 26 * 1600 + 39 * 40 + 27

\* ------------------------------------------------------------------------
\* DirChangeTracker on its own
\* ------------------------------------------------------------------------
\* A segment with three files and its end of segment marker.  ret is the
\* tracker's transaction, moves its list, op.open its inTransaction.
TrackerImage ==
  [i \in Segs |->
     IF i = 1
       THEN [next |-> 0, first |-> FirstDataSector,
             ent |-> [k \in 1..maxEntriesPerSegment |->
                        IF k = maxEntriesPerSegment THEN EosEnt
                        ELSE Ent(IF k = 2 THEN "TENT" ELSE "PERM", k, 0)]]
       ELSE EmptySegment]

Tracker == [Dir EXCEPT !.tx = ret, !.mv = moves]

TrackerCall(name, inTransaction, src, dst) ==
  [name |-> name, open |-> inTransaction, src |-> src, dst |-> dst]

InitTracker ==
  /\ segs = TrackerImage
  /\ hi = 1
  /\ mountHi = hi
  /\ InitZeroVolume(DataSectors)
  /\ totalSegs = TotalSegments
  /\ fault = "none"
  /\ dirty = FALSE
  /\ InitBlockCache
  /\ files = <<>>
  /\ opened = <<>>
  /\ cur = NoPtr
  /\ moves = getMoves(NewTracker(Dir))
  /\ ret = NewTracker(Dir).tx
  /\ op = TrackerCall("new", FALSE, 0, 0)

BeginTransaction ==
  /\ ~op.open
  /\ ret < MaxTx - 1
  /\ ret' = beginTransaction(Tracker).tx
  /\ op' = TrackerCall("begin", TRUE, 0, 0)
  /\ UNCHANGED <<segs, hi, fault, files, moves, cur, mountHi, opened, disk,
                 totalSegs, dirty, blocks, dataSource, cacheRet>>

MoveDirEntry(src, dst) ==
  /\ op.open
  /\ Len(moveDirEntry(Tracker, At(src), At(dst)).mv) <= MaxMoves
  /\ moves' = moveDirEntry(Tracker, At(src), At(dst)).mv
  /\ op' = TrackerCall("move", TRUE, src, dst)
  /\ UNCHANGED <<segs, hi, fault, files, ret, cur, mountHi, opened, disk,
                 totalSegs, dirty, blocks, dataSource, cacheRet>>

EndTransaction ==
  /\ op.open
  /\ moves' = endTransaction(Tracker).mv
  /\ op' = TrackerCall("end", FALSE, 0, 0)
  /\ UNCHANGED <<segs, hi, fault, files, ret, cur, mountHi, opened, disk,
                 totalSegs, dirty, blocks, dataSource, cacheRet>>

NextTracker ==
  \/ BeginTransaction
  \/ \E src \in 0..(maxEntriesPerSegment - 1),
        dst \in 0..(maxEntriesPerSegment - 1) : MoveDirEntry(src, dst)
  \/ EndTransaction

SpecTracker == InitTracker /\ [][NextTracker]_vars

\* The records that end at index src and were logged in an earlier
\* transaction than the current one.
EarlierTo(src) ==
  {i \in 1..Len(moves) : moves[i].ns = 1 /\ moves[i].ni = src /\ moves[i].tx < ret}

\* C33: when a file is moved from B to C and a record A->B of an earlier
\* transaction exists, the list keeps its length and one such record becomes
\* A->C; when the only records to B are of the current transaction, or
\* there is none, B->C is added as a record of its own and the others stay
\* (so A->B and B->C of one transaction are two records); and after
\* endTransaction no record has its old position equal to its new one.
C33_TrackerChains ==
  /\ [][(op'.name = "move" /\ op'.src \in 0..(maxEntriesPerSegment - 2)) =>
          IF EarlierTo(op'.src) # {}
            THEN /\ Len(moves') = Len(moves)
                 /\ \E i \in EarlierTo(op'.src) :
                      /\ moves'[i].os = moves[i].os /\ moves'[i].oi = moves[i].oi
                      /\ moves'[i].ns = 1 /\ moves'[i].ni = op'.dst
                      /\ \A j \in 1..Len(moves) : j # i => moves'[j] = moves[j]
            ELSE /\ Len(moves') = Len(moves) + 1
                 /\ SubSeq(moves', 1, Len(moves)) = moves
                 /\ moves'[Len(moves')].os = 1 /\ moves'[Len(moves')].oi = op'.src
                 /\ moves'[Len(moves')].ns = 1 /\ moves'[Len(moves')].ni = op'.dst]_vars
  /\ [](op.name = "end" =>
          \A i \in 1..Len(moves) :
            <<moves[i].os, moves[i].oi>> # <<moves[i].ns, moves[i].ni>>)

\* Two transactions are over, the first moved the file of slot 0 to slot 1
\* and the second moved it on to slot 2: the list is the one record 0 -> 2.
C33_Witness ==
  /\ op.name = "end"
  /\ ret = 1
  /\ Len(moves) = 1
  /\ moves[1].oi = 0
  /\ moves[1].ni = 2
  /\ moves[1].tx = 1

\* ------------------------------------------------------------------------
\* DirPtr::prev
\* ------------------------------------------------------------------------
\* The cursors a forward scan of the directory passes through.
RECURSIVE CursorsAfter(_, _)
CursorsAfter(d, p) ==
  LET q == increment(d, p)
  IN IF afterEnd(q) \/ Wild(q) THEN {} ELSE {q} \cup CursorsAfter(d, q)

SameEntry(p, q) ==
  p.segment = q.segment /\ p.index = q.index /\ p.datasec = q.datasec

\* C34: for every cursor p on an entry of the directory, the cursor before
\* the one after p, and the cursor after the one before p, are p again in
\* segment, index and data sector.
C34_PrevInvertsNext ==
  fault = "none" =>
    \A p \in CursorsAfter(Dir, startScan(Dir)) :
      /\ SameEntry(prev(Dir, next(Dir, p)), p)
      /\ SameEntry(next(Dir, prev(Dir, p)), p)

\* ------------------------------------------------------------------------
\* Directory::Directory
\* ------------------------------------------------------------------------
\* An image as the constructor reads it: the sectors of the volume, the
\* total_segments word of segment 1 and, per segment, the next_segment and
\* extra_bytes words.  What the constructor leaves: the error thrown (0 if
\* none), "hang" if it never returns, and the sector count and reference
\* count of the directory block.
Made(err, f, count, refcount) ==
  [err |-> err, fault |-> f, count |-> count, refcount |-> refcount]

\* while (segment): the loop keeps no state but the segment, so a segment
\* met again is met for ever.
RECURSIVE CheckSegments(_, _, _)
CheckSegments(img, segment, seen) ==
  IF segment = 0 THEN Made(0, "none", img.total * SECTORS_PER_SEGMENT, 0)
  ELSE IF segment \in seen
    THEN Made(0, "hang", img.total * SECTORS_PER_SEGMENT, 0)
  ELSE IF img.hdr[segment].extra # img.hdr[1].extra
    THEN Made(-EINVAL, "none", img.total * SECTORS_PER_SEGMENT, 0)
  ELSE IF img.hdr[segment].next > img.total
    THEN Made(-EINVAL, "none", img.total * SECTORS_PER_SEGMENT, 0)
  ELSE CheckSegments(img, img.hdr[segment].next, seen \cup {segment})

\* getBlock of a block the cache does not hold yet returns it with the
\* reference count of a new Block, 0; resizeBlock throws for a count that is
\* not positive and for sectors the data source does not have.
Directory(img) ==
  Bind((img.sectors - FIRST_SEGMENT_SECTOR) \div SECTORS_PER_SEGMENT, LAMBDA max_seg :
  IF FIRST_SEGMENT_SECTOR + 1 > img.sectors THEN Made(-EIO, "none", 0, 0)
  ELSE IF img.total >= max_seg THEN Made(-EINVAL, "none", 1, 0)
  ELSE IF img.total * SECTORS_PER_SEGMENT <= 0 THEN Made(-EINVAL, "none", 1, 0)
  ELSE IF FIRST_SEGMENT_SECTOR + img.total * SECTORS_PER_SEGMENT > img.sectors
    THEN Made(-EIO, "none", 1, 0)
  ELSE CheckSegments(img, 1, {}))

ImageInputs ==
  [name : {"image"},
   sectors : (FIRST_SEGMENT_SECTOR + 1)..MaxImageSectors,
   total : 0..MaxImageSegments,
   hdr : [1..MaxImageSegments ->
            [next : 0..(MaxImageSegments + 1), extra : {ExtraBytes, 0}]],
   made : {Made(0, "none", 0, 0)}]

InitImage ==
  /\ InitUnmounted
  /\ ret = 0
  /\ op \in ImageInputs

Construct ==
  /\ op.name = "image"
  /\ op' = [op EXCEPT !.name = "Directory", !.made = Directory(op)]
  /\ ret' = Directory(op).err
  /\ UNCHANGED <<segs, hi, fault, files, moves, cur, mountHi, opened, disk,
                 totalSegs, dirty, blocks, dataSource, cacheRet>>

SpecImage == InitImage /\ [][Construct]_vars

\* The segments on the next_segment chain of an image, from segment 1 on,
\* as far as the chain stays within total_segments.
RECURSIVE ChainSet(_, _, _)
ChainSet(img, s, seen) ==
  IF s = 0 \/ s > img.total \/ s \in seen THEN seen
  ELSE ChainSet(img, img.hdr[s].next, seen \cup {s})

OnChain(img) == ChainSet(img, 1, {})

\* C35: the constructor fails with EINVAL when total_segments >=
\* (volume_sectors - 6) / 2, when a segment of the chain has another
\* extra_bytes word than segment 1, or when a next_segment of the chain
\* exceeds total_segments; otherwise it returns without an error and the
\* directory block holds total_segments x 2 sectors.
C35_Construct ==
  op.name = "Directory" =>
    IF \/ op.total >= (op.sectors - 6) \div 2
       \/ \E s \in OnChain(op) : op.hdr[s].extra # op.hdr[1].extra
       \/ \E s \in OnChain(op) : op.hdr[s].next > op.total
      THEN op.made.fault = "none" /\ op.made.err = -EINVAL
      ELSE /\ op.made.fault = "none"
           /\ op.made.err = 0
           /\ op.made.count = op.total * 2

\* A forward scan follows next_segment from segment 1 until it reads 0.
RECURSIVE ScanEnds(_, _, _)
ScanEnds(img, s, seen) ==
  IF s = 0 THEN TRUE
  ELSE IF s \in seen \/ s > MaxImageSegments THEN FALSE
  ELSE ScanEnds(img, img.hdr[s].next, seen \cup {s})

\* C36: the constructor returns on every image, an image whose chain points
\* backward, to the segment itself or to a segment already met is rejected,
\* and a forward scan of a directory that was constructed ends.
C36_ConstructTerminates ==
  op.name = "Directory" =>
    /\ op.made.fault # "hang"
    /\ (\E s \in OnChain(op) : op.hdr[s].next # 0 /\ op.hdr[s].next <= s) =>
          op.made.err = -EINVAL
    /\ op.made.err = 0 => ScanEnds(op, 1, {})

\* ------------------------------------------------------------------------
\* Invalid handles
\* ------------------------------------------------------------------------
\* FileSystem::wrapper around a call of the table on handle fd: for an index
\* outside the table vector::at throws, and the wrapper answers what it does
\* not know with -EINVAL.
wrapper(d, fs, fd, call) ==
  IF fd >= Len(fs) THEN Out(d, fs, -EINVAL, 0, TRUE) ELSE call

\* The handles that are not valid: outside the table, or of a slot without
\* a reference.
InvalidHandles == {fd \in 0..MaxSlots : fd >= Len(files) \/ files[fd + 1].refcnt = 0}

Rejected(r, err) == r.ret = err /\ r.fs = files /\ r.d = Dir

\* C37: read, write, truncate and close on a handle that is not valid return
\* -EBADF (errno 9) and change neither the table nor the directory.
C37_InvalidHandle ==
  fault = "none" =>
    \A fd \in InvalidHandles, count \in SizeInputs :
      /\ Rejected(wrapper(Dir, files, fd, closeFile(Dir, files, fd)), -9)
      /\ Rejected(wrapper(Dir, files, fd, truncateFile(Dir, files, fd, count)), -9)
      /\ Rejected(wrapper(Dir, files, fd, writeFile(Dir, files, fd, 0, count, 0)), -9)
      /\ Rejected(wrapper(Dir, files, fd,
                          Out(Dir, files, readFile(Dir, files, fd, count, 0).got, 0, TRUE)),
                  -9)

\* ------------------------------------------------------------------------
\* Block: the range checks of the copy functions
\* ------------------------------------------------------------------------
\* What a call leaves: the error thrown (0 if none), whether the block is
\* marked dirty, the bytes of the buffer it read or wrote (first and last,
\* <<0, -1>> for none) and "outside" when memcpy, memmove or memset was
\* handed a range that does not lie in the buffer, which is undefined: the
\* process may stop there ("crash") or go on with memory outside the buffer
\* read or written.
Did(err, isDirty, first, last, f) ==
  [err |-> err, dirty |-> isDirty, first |-> first, last |-> last, fault |-> f]

Thrown(err) == {Did(err, FALSE, 0, -1, "none")}

\* memcpy, memmove, memset on count bytes from offset of a buffer of size.
\* A negative count is taken as a size_t, far more than any buffer holds.
Touch(offset, count, size, isDirty) ==
  IF count = 0 THEN {Did(0, isDirty, 0, -1, "none")}
  ELSE IF offset >= 0 /\ count > 0 /\ offset + count <= size
    THEN {Did(0, isDirty, offset, offset + count - 1, "none")}
  ELSE {Did(0, isDirty, offset, offset + count - 1, "outside"),
        Did(0, FALSE, 0, -1, "crash")}

\* The comparison of an int with data.size(): the int is converted to
\* size_t, so a negative one is above every size.
Exceeds(n, size) == n < 0 \/ n > size

copyOut(size, offset, bytes) ==
  IF Exceeds(offset + bytes, size) THEN Thrown(-EIO)
  ELSE Touch(offset, bytes, size, FALSE)

blockCopyIn(size, offset, bytes) ==
  IF Exceeds(offset + bytes, size) THEN Thrown(-EIO)
  ELSE Touch(offset, bytes, size, TRUE)

copyWithinBlock(size, sourceOffset, destOffset, count) ==
  IF \/ sourceOffset < 0
     \/ destOffset < 0
     \/ count <= 0
     \/ sourceOffset + count <= 0
     \/ destOffset + count <= 0
     \/ Exceeds(sourceOffset + count, size)
     \/ Exceeds(destOffset + count, size)
    THEN Thrown(-EIO)
  ELSE Touch(destOffset, count, size, TRUE)

copyFromOtherBlock(size, sourceSize, sourceOffset, destOffset, count) ==
  IF \/ sourceOffset < 0
     \/ destOffset < 0
     \/ count <= 0
     \/ sourceOffset + count <= 0
     \/ destOffset + count <= 0
     \/ Exceeds(sourceOffset + count, sourceSize)
     \/ Exceeds(destOffset + count, size)
    THEN Thrown(-EIO)
  ELSE Touch(destOffset, count, size, TRUE)

blockZeroFill(size, offset, count) ==
  IF offset < 0 \/ offset + count <= 0 \/ Exceeds(offset + count, size)
    THEN Thrown(-EIO)
  ELSE Touch(offset, count, size, TRUE)

\* Requests on a clean block of MaxBlocks sectors at most: offsets and
\* lengths around 0 and around the end of a sector.
OffsetInputs == {-SECTOR_SIZE, -1, 0, 1, SECTOR_SIZE - 1, SECTOR_SIZE, SECTOR_SIZE + 1}

BlockRequests ==
  [name : {"request"}, size : {k * SECTOR_SIZE : k \in 1..MaxBlocks},
   offset : OffsetInputs, dest : OffsetInputs, count : OffsetInputs,
   did : Thrown(0)]

InitBlock ==
  /\ InitUnmounted
  /\ ret = 0
  /\ op \in BlockRequests

Called(name, results) ==
  /\ \E r \in results : op' = [op EXCEPT !.name = name, !.did = r]
  /\ UNCHANGED <<segs, hi, fault, files, moves, ret, cur, mountHi, opened,
                 disk, totalSegs, dirty, blocks, dataSource, cacheRet>>

CopyOut ==
  /\ op.name = "request"
  /\ Called("copyOut", copyOut(op.size, op.offset, op.count))

CopyIn ==
  /\ op.name = "request"
  /\ Called("copyIn", blockCopyIn(op.size, op.offset, op.count))

ZeroFill ==
  /\ op.name = "request"
  /\ Called("zeroFill", blockZeroFill(op.size, op.offset, op.count))

CopyWithinBlock ==
  /\ op.name = "request"
  /\ Called("copyWithinBlock",
            copyWithinBlock(op.size, op.offset, op.dest, op.count))

CopyFromOtherBlock ==
  /\ op.name = "request"
  /\ Called("copyFromOtherBlock",
            copyFromOtherBlock(op.size, SECTOR_SIZE, op.offset, op.dest, op.count))

NextBlock ==
  \/ CopyOut
  \/ CopyIn
  \/ ZeroFill
  \/ CopyWithinBlock
  \/ CopyFromOtherBlock

SpecBlock == InitBlock /\ [][NextBlock]_vars

\* The destination offset counts for the two functions that take one.
BadRequest ==
  \/ op.offset < 0
  \/ op.count < 0
  \/ op.offset + op.count >
       (IF op.name = "copyFromOtherBlock" THEN SECTOR_SIZE ELSE op.size)
  \/ /\ op.name \in {"copyWithinBlock", "copyFromOtherBlock"}
     /\ (op.dest < 0 \/ op.dest + op.count > op.size)

\* C38: a request with a negative offset, a negative length or an end past
\* the size of the block raises EIO and leaves buffer and dirty flag as they
\* were, in each of the five functions; and no request at all reads or
\* writes outside the buffer.
C38_RangeChecks ==
  op.name # "request" =>
    /\ BadRequest =>
         /\ op.did.err = -EIO
         /\ ~op.did.dirty
         /\ op.did.last < op.did.first
    /\ op.did.fault = "none"

\* C39: whatever calls the table has served, the cursor of every slot with
\* a reference is on an entry that is TENT or PERM: never on free space, on
\* an end of segment marker or outside the entries of its segment.
C39_LiveHandleOnFile ==
  fault = "none" =>
    \A i \in 1..Len(files) :
      files[i].refcnt > 0 =>
        /\ ~Wild(files[i].dirp)
        /\ Slot(Dir, files[i].dirp).st \in {"TENT", "PERM"}
====
